---- MODULE Spec2Model ----
(***************************************************************************)
(* mcp-chess: the OAuth 2.0 authorization-code + PKCE service and the MCP  *)
(* tools/call gateway that it protects.                                    *)
(*                                                                         *)
(* Strings.  The opaque strings of the program (codes, tokens, verifiers,  *)
(* challenges, digests) are modelled as records                            *)
(*     [kind, id, len, pre]                                                *)
(* "the first len characters of the character stream (kind, id, pre)".     *)
(* Two strings are equal iff the records are equal, and a string is a      *)
(* proper prefix (a truncation) of another iff both read the same stream   *)
(* and it is shorter.  Stream kinds:                                       *)
(*   "rand"   base64url text of fresh random bytes (randomToken)           *)
(*   "text"   client-chosen text over the unreserved URL characters        *)
(*   "bad"    client-chosen text holding a character outside that set      *)
(*   "sha256" the base64url SHA-256 digest of the string in pre            *)
(* SHA-256 is modelled as collision free: the digest stream is named by    *)
(* its preimage, so distinct inputs have distinct digests, and a digest    *)
(* is never equal to a string of another kind.                             *)
(***************************************************************************)
EXTENDS Integers, Sequences, FiniteSets, TLC

\* ------------------------------------------------------------------ bounds
MaxEvents == 4

\* How many times ensureDbReady starts an initialization.
MaxAttempts == 3

\* --------------------------------------------------------------- constants
CODE_TTL_SECONDS == 5 * 60
ACCESS_TOKEN_TTL_SECONDS == 60 * 60
OAUTH_SCOPE == "mcp:tools"
PkceMinLen == 43
PkceMaxLen == 128
CodeBytes == 32
TokenBytes == 48

\* "no value" of an optional field or parameter: the empty sequence; a present
\* value v is the one-element sequence <<v>>.
None == <<>>
Some(v) == <<v>>
IsSome(o) == o # <<>>
Get(o) == o[1]

\* ----------------------------------------------------------------- strings
EmptyStr == [kind |-> "text", id |-> 0, len |-> 0, pre |-> <<>>]
Text(n, l) == IF l = 0 THEN EmptyStr ELSE [kind |-> "text", id |-> n, len |-> l, pre |-> <<>>]
BadText(n, l) == [kind |-> "bad", id |-> n, len |-> l, pre |-> <<>>]

\* The first n characters of s.
Truncate(s, n) == IF n >= s.len THEN s ELSE IF n = 0 THEN EmptyStr ELSE [s EXCEPT !.len = n]

IsProperPrefix(a, b) ==
    /\ a.len < b.len
    /\ a = Truncate(b, a.len)

\* Length of the unpadded base64url text of n bytes.
Base64UrlLen(n) == (n * 4 + 2) \div 3

\* randomBytes(bytes).toString("base64url"); n names the draw: every draw of
\* the program is fresh.
randomToken(bytes, n) == [kind |-> "rand", id |-> n, len |-> Base64UrlLen(bytes), pre |-> <<>>]

\* createHash("sha256").update(value).digest("base64url")
sha256(value) == [kind |-> "sha256", id |-> 0, len |-> Base64UrlLen(32), pre |-> <<value>>]

\* /^[A-Za-z0-9\-._~]{43,128}$/
MatchesUnreserved(value) ==
    /\ value.kind # "bad"
    /\ value.len >= PkceMinLen
    /\ value.len <= PkceMaxLen

isValidPkceVerifier(value) == MatchesUnreserved(value)

isValidCodeChallenge(value) == MatchesUnreserved(value)

\* --------------------------------------------------------------------- PKCE
verifyPkce_NoHash(challenge, method, verifier) ==
    IF method = "plain" THEN verifier = challenge
    ELSE IF method = "S256" THEN verifier = challenge
    ELSE FALSE

verifyPkce(challenge, method, verifier) ==
    IF method = "plain" THEN verifier = challenge
    ELSE IF method = "S256" THEN sha256(verifier) = challenge
    ELSE FALSE

\* ------------------------------------------------------------ redirect URIs
\* A redirect URI is what new URL(redirectUri) makes of it: whether it parses
\* as an absolute URL, its protocol, its fragment, and the rest (name).
Uri(name, protocol, hash) == [parses |-> TRUE, name |-> name, protocol |-> protocol, hash |-> hash]
NotAUrl(name) == [parses |-> FALSE, name |-> name, protocol |-> "", hash |-> ""]

validateRedirectUri(redirectUri) ==
    /\ redirectUri.parses
    /\ redirectUri.protocol \in {"https:", "http:"}
    /\ redirectUri.hash = ""

\* ------------------------------------------------------------- allow-list
\* assertAllowedClientId: TRUE when it returns, FALSE when it throws.
assertAllowedClientId_Open(allowed, clientId) == TRUE

assertAllowedClientId(allowed, clientId) ==
    \/ allowed = {}
    \/ clientId \in allowed

\* ==================================================================== state
VARIABLES
    now,               \* Date.now(), in milliseconds
    events,            \* how many codes were minted, exchanges suspended and clock ticks made
    allowedClientIds,  \* process.env.MCP_OAUTH_ALLOWED_CLIENT_IDS, parsed
    oAuthCode,         \* table OAuthCode, in insertion order (row id = index)
    oAuthAccessToken,  \* table OAuthAccessToken, in insertion order
    exchange,          \* POST /oauth/token requests suspended in exchangeAuthorizationCode
    last,              \* the handler invocation that completed last: request and response
    dbReadyPromise,    \* global.dbReadyPromise: undefined, or the promise memoized
    promises,          \* the promises ensureDbReady created, in order, each with its state
    callers,           \* the callers of ensureDbReady: where each is and what it got
    user,              \* table User, in insertion order
    game,              \* table Game, in insertion order (row id = index)
    move,              \* table Move, in insertion order
    chatMessage,       \* table ChatMessage, in insertion order
    outbox,            \* the e-mails handed to the mailer and the events published, in order
    tx,                \* the move_piece transactions and reminder requests under way
    reminderApiKey     \* process.env.REMINDER_API_KEY: unset, or the key

\* The state of the application outside the OAuth handlers.
guardVars == <<dbReadyPromise, promises, callers>>
gameVars == <<user, game, move, chatMessage, outbox, tx>>
envVars == <<reminderApiKey>>
appVars == <<guardVars, gameVars, envVars>>

vars == <<now, events, allowedClientIds, oAuthCode, oAuthAccessToken, exchange, last, appVars>>

Users == {"u1", "u2"}
ClientIds == {"c1", "c2"}

\* Client-side strings: two verifiers of legal length, one too short.
V1 == Text(1, PkceMinLen)
V2 == Text(2, PkceMaxLen)
VShort == Text(1, PkceMinLen - 1)

R1 == Uri("client.example/cb", "https:", "")
R2 == Uri("localhost/cb", "http:", "")
RFragment == Uri("client.example/cb", "https:", "#frag")

Slots == 1..MaxEvents

IdleSlot == [pc |-> "idle"]

NoInvocation == [endpoint |-> "none"]

\* The callers of ensureDbReady (requests being handled) and what each one
\* holds before its first call.
Callers == {"r1", "r2", "r3"}
IdleCaller == [pc |-> "idle", promise |-> 0, outcome |-> ""]

\* The users that signed in before the model starts: u1 and u3 with an e-mail
\* address, u2 without one (User.email is nullable).
InitialUsers ==
    << [id |-> "u1", email |-> Some("a@x")],
       [id |-> "u2", email |-> None],
       [id |-> "u3", email |-> Some("c@x")] >>

\* The application at start-up: no promise memoized, the users above, no game,
\* and (InitApp) no reminder key configured.
InitProcess ==
    /\ dbReadyPromise = None
    /\ promises = <<>>
    /\ callers = [c \in Callers |-> IdleCaller]
    /\ user = InitialUsers
    /\ game = <<>>
    /\ move = <<>>
    /\ chatMessage = <<>>
    /\ outbox = <<>>
    /\ tx = <<>>

InitApp ==
    /\ InitProcess
    /\ reminderApiKey = None

Init ==
    /\ InitApp
    /\ now = 0
    /\ events = 0
    /\ allowedClientIds = {}
    /\ oAuthCode = <<>>
    /\ oAuthAccessToken = <<>>
    /\ exchange = [p \in Slots |-> IdleSlot]
    /\ last = NoInvocation

\* ==================================================================== clock
CodeTtlMs == CODE_TTL_SECONDS * 1000
TokenTtlMs == ACCESS_TOKEN_TTL_SECONDS * 1000

\* The clock advances by a millisecond, or to the last millisecond before a
\* code (CodeSteps) or a token (TokenSteps) issued now expires.
CodeSteps == {1, CodeTtlMs - 1}
TokenSteps == {1, TokenTtlMs - 1}

Tick(d) ==
    /\ last = NoInvocation
    /\ events < MaxEvents
    /\ now' = now + d
    /\ events' = events + 1
    /\ UNCHANGED <<allowedClientIds, oAuthCode, oAuthAccessToken, exchange, last, appVars>>

\* ========================================================= GET /oauth/authorize
\* db.oAuthCode.create of createAuthorizationCode: the row stored for the n-th
\* code, and the code returned to the caller.
NewCodeValue(n) == randomToken(CodeBytes, n)

createAuthorizationCode(n, input, t) ==
    [ id |-> n,
      codeHash |-> sha256(NewCodeValue(n)),
      userId |-> input.userId,
      clientId |-> input.clientId,
      redirectUri |-> input.redirectUri,
      codeChallenge |-> input.codeChallenge,
      codeChallengeMethod |-> input.codeChallengeMethod,
      scope |-> IF IsSome(input.scope) THEN Get(input.scope) ELSE OAUTH_SCOPE,
      resource |-> input.resource,
      expiresAt |-> t + CODE_TTL_SECONDS * 1000,
      usedAt |-> None ]

\* String.prototype.trim on the method names the model sends.
Trim(value) ==
    CASE value = " S256 " -> "S256"
      [] value = "plain " -> "plain"
      [] OTHER -> value

\* (url.searchParams.get("code_challenge_method") ?? "plain").trim()
MethodOf(req) ==
    Trim(IF IsSome(req.codeChallengeMethod) THEN Get(req.codeChallengeMethod) ELSE "plain")

\* A value of searchParams.get that is null or the empty string is falsy.
Truthy(o) == IsSome(o) /\ Get(o) # ""

\* The query string of the request: every parameter as it was sent.
QueryOf(req) ==
    [ responseType |-> req.responseType, clientId |-> req.clientId,
      redirectUri |-> req.redirectUri, state |-> req.state, scope |-> req.scope,
      resource |-> req.resource, codeChallenge |-> req.codeChallenge,
      codeChallengeMethod |-> req.codeChallengeMethod ]

\* The responses of GET: a JSON error, a redirect to redirect_uri with error
\* parameters or with the code, a redirect to the sign-in page whose callback
\* re-enters /oauth/authorize with the query of the request.
JsonError(error) ==
    [status |-> 400, kind |-> "json", error |-> error, error_description |-> "",
     location |-> None, code |-> None, state |-> None, callback |-> None]

redirectWithError(redirectUri, state, error, description) ==
    [status |-> 302, kind |-> "redirect", error |-> error, error_description |-> description,
     location |-> Some(redirectUri), code |-> None,
     state |-> IF Truthy(state) THEN state ELSE None, callback |-> None]

SignInRedirect(req) ==
    [status |-> 302, kind |-> "signin", error |-> "", error_description |-> "",
     location |-> None, code |-> None, state |-> None, callback |-> Some(QueryOf(req))]

CodeRedirect(redirectUri, state, code) ==
    [status |-> 302, kind |-> "redirect", error |-> "", error_description |-> "",
     location |-> Some(redirectUri), code |-> Some(code),
     state |-> IF Truthy(state) THEN state ELSE None, callback |-> None]

\* The check of GET that answers before a code is minted, or None when the
\* request passes them all.
AuthorizeRejection_SessionFirst(req) ==
    IF ~Truthy(req.clientId) \/ ~IsSome(req.redirectUri)
    THEN Some(JsonError("invalid_request"))
    ELSE IF ~validateRedirectUri(Get(req.redirectUri))
    THEN Some(JsonError("invalid_request"))
    ELSE IF ~IsSome(req.session)
    THEN Some(SignInRedirect(req))
    ELSE IF req.responseType # Some("code")
    THEN Some(redirectWithError(Get(req.redirectUri), req.state, "unsupported_response_type",
                                "Only response_type=code is supported"))
    ELSE IF ~IsSome(req.codeChallenge) \/ ~isValidCodeChallenge(Get(req.codeChallenge))
    THEN Some(redirectWithError(Get(req.redirectUri), req.state, "invalid_request",
                                "Missing or invalid code_challenge"))
    ELSE IF MethodOf(req) # "S256" /\ MethodOf(req) # "plain"
    THEN Some(redirectWithError(Get(req.redirectUri), req.state, "invalid_request",
                                "Unsupported code_challenge_method"))
    ELSE IF ~assertAllowedClientId(allowedClientIds, Get(req.clientId))
    THEN Some(redirectWithError(Get(req.redirectUri), req.state, "unauthorized_client",
                                "Client is not allowed"))
    ELSE None

AuthorizeRejection_NoMethodCheck(req) ==
    IF ~Truthy(req.clientId) \/ ~IsSome(req.redirectUri)
    THEN Some(JsonError("invalid_request"))
    ELSE IF ~validateRedirectUri(Get(req.redirectUri))
    THEN Some(JsonError("invalid_request"))
    ELSE IF req.responseType # Some("code")
    THEN Some(redirectWithError(Get(req.redirectUri), req.state, "unsupported_response_type",
                                "Only response_type=code is supported"))
    ELSE IF ~IsSome(req.codeChallenge) \/ ~isValidCodeChallenge(Get(req.codeChallenge))
    THEN Some(redirectWithError(Get(req.redirectUri), req.state, "invalid_request",
                                "Missing or invalid code_challenge"))
    ELSE IF ~assertAllowedClientId(allowedClientIds, Get(req.clientId))
    THEN Some(redirectWithError(Get(req.redirectUri), req.state, "unauthorized_client",
                                "Client is not allowed"))
    ELSE IF ~IsSome(req.session)
    THEN Some(SignInRedirect(req))
    ELSE None

AuthorizeRejection_RedirectsUnvalidated(req) ==
    IF ~Truthy(req.clientId) \/ ~IsSome(req.redirectUri)
    THEN Some(JsonError("invalid_request"))
    ELSE IF req.responseType # Some("code")
    THEN Some(redirectWithError(Get(req.redirectUri), req.state, "unsupported_response_type",
                                "Only response_type=code is supported"))
    ELSE IF ~validateRedirectUri(Get(req.redirectUri))
    THEN Some(JsonError("invalid_request"))
    ELSE IF ~IsSome(req.codeChallenge) \/ ~isValidCodeChallenge(Get(req.codeChallenge))
    THEN Some(redirectWithError(Get(req.redirectUri), req.state, "invalid_request",
                                "Missing or invalid code_challenge"))
    ELSE IF MethodOf(req) # "S256" /\ MethodOf(req) # "plain"
    THEN Some(redirectWithError(Get(req.redirectUri), req.state, "invalid_request",
                                "Unsupported code_challenge_method"))
    ELSE IF ~assertAllowedClientId(allowedClientIds, Get(req.clientId))
    THEN Some(redirectWithError(Get(req.redirectUri), req.state, "unauthorized_client",
                                "Client is not allowed"))
    ELSE IF ~IsSome(req.session)
    THEN Some(SignInRedirect(req))
    ELSE None

AuthorizeRejection(req) ==
    IF ~Truthy(req.clientId) \/ ~IsSome(req.redirectUri)
    THEN Some(JsonError("invalid_request"))
    ELSE IF ~validateRedirectUri(Get(req.redirectUri))
    THEN Some(JsonError("invalid_request"))
    ELSE IF req.responseType # Some("code")
    THEN Some(redirectWithError(Get(req.redirectUri), req.state, "unsupported_response_type",
                                "Only response_type=code is supported"))
    ELSE IF ~IsSome(req.codeChallenge) \/ ~isValidCodeChallenge(Get(req.codeChallenge))
    THEN Some(redirectWithError(Get(req.redirectUri), req.state, "invalid_request",
                                "Missing or invalid code_challenge"))
    ELSE IF MethodOf(req) # "S256" /\ MethodOf(req) # "plain"
    THEN Some(redirectWithError(Get(req.redirectUri), req.state, "invalid_request",
                                "Unsupported code_challenge_method"))
    ELSE IF ~assertAllowedClientId(allowedClientIds, Get(req.clientId))
    THEN Some(redirectWithError(Get(req.redirectUri), req.state, "unauthorized_client",
                                "Client is not allowed"))
    ELSE IF ~IsSome(req.session)
    THEN Some(SignInRedirect(req))
    ELSE None

Authorize(req) ==
    LET rejection == AuthorizeRejection(req)
        n == Len(oAuthCode) + 1
        row == createAuthorizationCode(n,
                   [ userId |-> Get(req.session),
                     clientId |-> Get(req.clientId),
                     redirectUri |-> Get(req.redirectUri),
                     codeChallenge |-> Get(req.codeChallenge),
                     codeChallengeMethod |-> MethodOf(req),
                     scope |-> IF Truthy(req.scope) THEN req.scope ELSE Some(OAUTH_SCOPE),
                     resource |-> req.resource ],
                   now)
    IN  /\ last = NoInvocation
        /\ IF IsSome(rejection)
           THEN /\ last' = [endpoint |-> "authorize", req |-> req, at |-> now, resp |-> Get(rejection)]
                /\ UNCHANGED <<oAuthCode, events>>
           ELSE /\ events < MaxEvents
                /\ events' = events + 1
                /\ oAuthCode' = Append(oAuthCode, row)
                /\ last' = [endpoint |-> "authorize", req |-> req, at |-> now,
                            resp |-> CodeRedirect(Get(req.redirectUri), req.state, NewCodeValue(n))]
        /\ UNCHANGED <<now, allowedClientIds, oAuthAccessToken, exchange, appVars>>

\* ============================================================ POST /oauth/token
\* The origins of the known agents, as isAllowedOrigin lists them.
isAllowedOrigin_AnyHttps(origin) ==
    origin \in { "https://chatgpt.com", "https://chat.openai.com",
                 "https://chatgpt.com/", "https://chat.openai.com/",
                 "https://evil.example" }

isAllowedOrigin(origin) ==
    origin \in { "https://chatgpt.com", "https://chat.openai.com",
                 "https://chatgpt.com/", "https://chat.openai.com/" }

\* getCorsHeaders; origin is req.headers.get("origin") ?? "".
getCorsHeaders(origin) ==
    [ allowOrigin |-> IF isAllowedOrigin(origin) THEN origin ELSE "*",
      allowMethods |-> "POST,OPTIONS",
      allowHeaders |-> "content-type,authorization",
      maxAge |-> "86400",
      vary |-> "Origin" ]

\* The headers of every response of POST: no-store, no-cache and the CORS
\* headers for the request.
TokenHeaders(body) ==
    [ cacheControl |-> "no-store", pragma |-> "no-cache", cors |-> Some(getCorsHeaders(body.origin)) ]

\* The JSON and status of oauthError, and of the 200.
OAuthError(error, status) ==
    [status |-> status, error |-> error, access_token |-> None, token_type |-> "",
     expires_in |-> 0, scope |-> ""]

TokenResponse(token) ==
    [status |-> 200, error |-> "", access_token |-> Some(token.accessToken),
     token_type |-> "Bearer", expires_in |-> token.expiresIn, scope |-> token.scope]

\* The checks of POST that answer before exchangeAuthorizationCode is called, or
\* None when the request passes them all.
TokenRejection_AllowListFirst(body) ==
    IF body.clientId # "" /\ ~assertAllowedClientId(allowedClientIds, body.clientId)
    THEN Some(OAuthError("unauthorized_client", 400))
    ELSE IF body.grantType # "authorization_code"
    THEN Some(OAuthError("unsupported_grant_type", 400))
    ELSE IF body.code = EmptyStr \/ body.codeVerifier = EmptyStr
    THEN Some(OAuthError("invalid_request", 400))
    ELSE IF ~isValidPkceVerifier(body.codeVerifier)
    THEN Some(OAuthError("invalid_request", 400))
    ELSE None

TokenRejection(body) ==
    IF body.grantType # "authorization_code"
    THEN Some(OAuthError("unsupported_grant_type", 400))
    ELSE IF body.code = EmptyStr \/ body.codeVerifier = EmptyStr
    THEN Some(OAuthError("invalid_request", 400))
    ELSE IF ~isValidPkceVerifier(body.codeVerifier)
    THEN Some(OAuthError("invalid_request", 400))
    ELSE IF body.clientId # "" /\ ~assertAllowedClientId(allowedClientIds, body.clientId)
    THEN Some(OAuthError("unauthorized_client", 400))
    ELSE None

\* The argument POST builds for exchangeAuthorizationCode: clientId || undefined,
\* redirectUri || undefined.
ExchangeInput(body) ==
    [ code |-> body.code,
      clientId |-> IF body.clientId # "" THEN Some(body.clientId) ELSE None,
      redirectUri |-> body.redirectUri,
      codeVerifier |-> body.codeVerifier ]

\* db.oAuthCode.findUnique({ where: { codeHash } }): the row, or None.
FindCode(codeHash) ==
    LET hits == {i \in 1..Len(oAuthCode) : oAuthCode[i].codeHash = codeHash}
    IN  IF hits = {} THEN None ELSE Some(oAuthCode[CHOOSE i \in hits : TRUE])

\* Lines 174-188 of exchangeAuthorizationCode, run against the row read at time
\* t: TRUE when one of them throws invalid_grant.
ExchangeThrows_NoExpiry(authCode, input, t) ==
    \/ ~IsSome(authCode)
    \/ IsSome(Get(authCode).usedAt)
    \/ Some(Get(authCode).clientId) # input.clientId
    \/ Some(Get(authCode).redirectUri) # input.redirectUri
    \/ ~verifyPkce(Get(authCode).codeChallenge, Get(authCode).codeChallengeMethod,
                   input.codeVerifier)

ExchangeThrows_NoBinding(authCode, input, t) ==
    \/ ~IsSome(authCode)
    \/ IsSome(Get(authCode).usedAt)
    \/ Get(authCode).expiresAt <= t
    \/ ~verifyPkce(Get(authCode).codeChallenge, Get(authCode).codeChallengeMethod,
                   input.codeVerifier)

ExchangeThrows(authCode, input, t) ==
    \/ ~IsSome(authCode)
    \/ IsSome(Get(authCode).usedAt)
    \/ Get(authCode).expiresAt <= t
    \/ Some(Get(authCode).clientId) # input.clientId
    \/ Some(Get(authCode).redirectUri) # input.redirectUri
    \/ ~verifyPkce(Get(authCode).codeChallenge, Get(authCode).codeChallengeMethod,
                   input.codeVerifier)

\* The slot a request that reaches updateMany is suspended in: the first idle one.
FreeSlot == CHOOSE p \in Slots : exchange[p].pc = "idle" /\ \A q \in 1..(p - 1) : exchange[q].pc # "idle"

\* What POST answers before its first write, or None when the request passes
\* every check on the row it reads and goes on to db.oAuthCode.updateMany.
TokenPostAnswer(body) ==
    IF IsSome(TokenRejection(body))
    THEN TokenRejection(body)
    ELSE IF ExchangeThrows(FindCode(sha256(body.code)), ExchangeInput(body), now)
    THEN Some(OAuthError("invalid_grant", 400))
    ELSE None

\* POST when a refused exchange also spends the code it named.
TokenPost_SpendsOnRefusal(body) ==
    LET answer == TokenPostAnswer(body)
        authCode == FindCode(sha256(body.code))
    IN  /\ last = NoInvocation
        /\ IF IsSome(answer)
           THEN /\ last' = [endpoint |-> "token", req |-> body, at |-> now, resp |-> Get(answer),
                            headers |-> TokenHeaders(body)]
                /\ oAuthCode' = IF IsSome(authCode)
                                THEN [oAuthCode EXCEPT ![Get(authCode).id].usedAt = Some(now)]
                                ELSE oAuthCode
                /\ UNCHANGED <<exchange, events>>
           ELSE /\ events < MaxEvents
                /\ events' = events + 1
                /\ exchange' = [exchange EXCEPT ![FreeSlot] =
                       [ pc |-> "updateMany",
                         body |-> body,
                         at |-> now,
                         authCode |-> Get(authCode),
                         token |-> randomToken(TokenBytes, FreeSlot),
                         expiresAt |-> now + ACCESS_TOKEN_TTL_SECONDS * 1000,
                         usedAt |-> now,
                         late |-> IsSome(Get(authCode).usedAt) \/ Get(authCode).expiresAt < now ]]
                /\ UNCHANGED <<last, oAuthCode>>
        /\ UNCHANGED <<now, allowedClientIds, oAuthAccessToken, appVars>>

\* POST up to the first await that another request can interleave with: the
\* request is answered at once, or is suspended before db.oAuthCode.updateMany.
\* token, expiresAt and the usedAt to write are computed here, before the update
\* is sent.
TokenPost(body) ==
    LET answer == TokenPostAnswer(body)
        authCode == FindCode(sha256(body.code))
    IN  /\ last = NoInvocation
        /\ IF IsSome(answer)
           THEN /\ last' = [endpoint |-> "token", req |-> body, at |-> now, resp |-> Get(answer),
                            headers |-> TokenHeaders(body)]
                /\ UNCHANGED <<exchange, events>>
           ELSE /\ events < MaxEvents
                /\ events' = events + 1
                /\ exchange' = [exchange EXCEPT ![FreeSlot] =
                       [ pc |-> "updateMany",
                         body |-> body,
                         at |-> now,
                         authCode |-> Get(authCode),
                         token |-> randomToken(TokenBytes, FreeSlot),
                         expiresAt |-> now + ACCESS_TOKEN_TTL_SECONDS * 1000,
                         usedAt |-> now,
                         late |-> IsSome(Get(authCode).usedAt) \/ Get(authCode).expiresAt < now ]]
                /\ UNCHANGED last
        /\ UNCHANGED <<now, allowedClientIds, oAuthCode, oAuthAccessToken, appVars>>

\* What is kept of request p once it is answered: the code it was for, the
\* token it drew, the response, and whether the code was already used or past
\* its expiry when the request read it.
Answered(p, resp) ==
    [ pc |-> "done", codeId |-> exchange[p].authCode.id, token |-> exchange[p].token,
      late |-> exchange[p].late, resp |-> resp, headers |-> TokenHeaders(exchange[p].body),
      origin |-> exchange[p].body.origin ]

\* db.oAuthCode.updateMany({ where: { id, usedAt: null }, data: { usedAt } }):
\* the table after it, and whether a row was updated.
MarkUsed_Unconditional(id, usedAt) ==
    [ rows |-> [oAuthCode EXCEPT ![id].usedAt = Some(usedAt)], count |-> 1 ]

MarkUsed(id, usedAt) ==
    IF oAuthCode[id].usedAt = None
    THEN [ rows |-> [oAuthCode EXCEPT ![id].usedAt = Some(usedAt)], count |-> 1 ]
    ELSE [ rows |-> oAuthCode, count |-> 0 ]

\* if (!updated.count): the request gives up with invalid_grant.
UpdateFailed_Ignored(updated) == FALSE

UpdateFailed(updated) == updated.count = 0

\* The conditional update runs; a request that updated no row answers
\* invalid_grant, the other goes on to db.oAuthAccessToken.create.
ExchangeUpdate(p) ==
    /\ last = NoInvocation
    /\ exchange[p].pc = "updateMany"
    /\ LET updated == MarkUsed(exchange[p].authCode.id, exchange[p].usedAt)
       IN  /\ oAuthCode' = updated.rows
           /\ exchange' = [exchange EXCEPT ![p] =
                  IF UpdateFailed(updated)
                  THEN Answered(p, OAuthError("invalid_grant", 400))
                  ELSE [@ EXCEPT !.pc = "create"]]
    /\ UNCHANGED <<now, events, allowedClientIds, oAuthAccessToken, last, appVars>>

\* db.oAuthAccessToken.create: the row of the token of request p.  codeId is not
\* a column: it records the code the token was issued for.
NewAccessToken(p) ==
    [ tokenHash |-> sha256(exchange[p].token),
      userId |-> exchange[p].authCode.userId,
      clientId |-> exchange[p].authCode.clientId,
      scope |-> exchange[p].authCode.scope,
      resource |-> exchange[p].authCode.resource,
      expiresAt |-> exchange[p].expiresAt,
      lastUsedAt |-> None,
      codeId |-> exchange[p].authCode.id ]

\* The token row is inserted and POST answers 200.
ExchangeCreate(p) ==
    /\ last = NoInvocation
    /\ exchange[p].pc = "create"
    /\ oAuthAccessToken' = Append(oAuthAccessToken, NewAccessToken(p))
    /\ exchange' = [exchange EXCEPT ![p] =
           Answered(p, TokenResponse(
               [ accessToken |-> exchange[p].token,
                 scope |-> exchange[p].authCode.scope,
                 expiresIn |-> ACCESS_TOKEN_TTL_SECONDS ]))]
    /\ UNCHANGED <<now, events, allowedClientIds, oAuthCode, last, appVars>>

\* db.oAuthAccessToken.create rejects when the row would be restored to the
\* state before updateMany.
ExchangeCreateFails_RollsBack(p) ==
    /\ last = NoInvocation
    /\ exchange[p].pc = "create"
    /\ oAuthCode' = [oAuthCode EXCEPT ![exchange[p].authCode.id].usedAt = None]
    /\ exchange' = [exchange EXCEPT ![p] = Answered(p, OAuthError("server_error", 500))]
    /\ UNCHANGED <<now, events, allowedClientIds, oAuthAccessToken, last, appVars>>

\* db.oAuthAccessToken.create rejects (the database is gone, the insert is
\* refused): the error is not invalid_grant, so the catch of POST answers
\* server_error with status 500.  Nothing undoes the updateMany before it.
ExchangeCreateFails(p) ==
    /\ last = NoInvocation
    /\ exchange[p].pc = "create"
    /\ exchange' = [exchange EXCEPT ![p] = Answered(p, OAuthError("server_error", 500))]
    /\ UNCHANGED <<now, events, allowedClientIds, oAuthCode, oAuthAccessToken, last, appVars>>

\* POST from its first line: ensureDbReady, then getTokenRequestBody, then the
\* rest.  req tells whether the database is reachable and whether the body can
\* be parsed, and holds the fields and the Origin header of the request.
TokenRoute(req) ==
    IF ~req.dbReady
    THEN /\ last = NoInvocation
         /\ last' = [endpoint |-> "token-unread", req |-> req.body, at |-> now,
                     resp |-> OAuthError("server_error", 500), headers |-> TokenHeaders(req.body)]
         /\ UNCHANGED <<now, events, allowedClientIds, oAuthCode, oAuthAccessToken, exchange, appVars>>
    ELSE IF ~req.parses
    THEN /\ last = NoInvocation
         /\ last' = [endpoint |-> "token-unread", req |-> req.body, at |-> now,
                     resp |-> OAuthError("invalid_request", 400), headers |-> TokenHeaders(req.body)]
         /\ UNCHANGED <<now, events, allowedClientIds, oAuthCode, oAuthAccessToken, exchange, appVars>>
    ELSE TokenPost(req.body)

\* OPTIONS: 204 with the CORS headers alone.
TokenOptions(origin) ==
    /\ last = NoInvocation
    /\ last' = [endpoint |-> "token-options", req |-> [origin |-> origin], at |-> now,
                resp |-> [status |-> 204, error |-> ""],
                headers |-> [cacheControl |-> "", pragma |-> "", cors |-> Some(getCorsHeaders(origin))]]
    /\ UNCHANGED <<now, events, allowedClientIds, oAuthCode, oAuthAccessToken, exchange, appVars>>

\* =============================================================== bearer tokens
\* An Authorization header is its scheme and the rest: the words after the
\* scheme, joined by single blanks and trimmed (EmptyStr when there are none).
Header(scheme, rest) == [scheme |-> scheme, rest |-> rest]

toLowerCase(s) ==
    CASE s = "Bearer" -> "bearer"
      [] s = "BEARER" -> "bearer"
      [] s = "Basic" -> "basic"
      [] OTHER -> s

\* extractBearerToken: the token, or None.
extractBearerToken(authHeader) ==
    IF ~IsSome(authHeader) THEN None
    ELSE IF toLowerCase(Get(authHeader).scheme) # "bearer" THEN None
    ELSE IF Get(authHeader).rest = EmptyStr THEN None
    ELSE Some(Get(authHeader).rest)

\* db.oAuthAccessToken.findUnique({ where: { tokenHash } }): the index of the
\* row, or None.
FindToken_ByPrefix(token) ==
    LET hits == {i \in 1..Len(oAuthAccessToken) :
                    \/ oAuthAccessToken[i].tokenHash = sha256(token)
                    \/ IsProperPrefix(token, Get(oAuthAccessToken[i].tokenHash.pre))}
    IN  IF hits = {} THEN None ELSE Some(CHOOSE i \in hits : TRUE)

FindToken(token) ==
    LET hits == {i \in 1..Len(oAuthAccessToken) : oAuthAccessToken[i].tokenHash = sha256(token)}
    IN  IF hits = {} THEN None ELSE Some(CHOOSE i \in hits : TRUE)

\* Line 233 of getUserIdFromBearerToken: the row read is absent or expired.
TokenRefused_StrictlyAfter(record, t) ==
    \/ ~IsSome(record)
    \/ oAuthAccessToken[Get(record)].expiresAt < t

TokenRefused(record, t) ==
    \/ ~IsSome(record)
    \/ oAuthAccessToken[Get(record)].expiresAt <= t

\* getUserIdFromBearerToken at time t: the user id returned (or None) and the
\* token table after the lastUsedAt stamp.  updateFails tells whether
\* db.oAuthAccessToken.update rejects: .catch(() => undefined) drops the error.
getUserIdFromBearerToken_UpdateRethrown(authHeader, t, updateFails) ==
    LET token == extractBearerToken(authHeader)
        record == IF IsSome(token) THEN FindToken(Get(token)) ELSE None
    IN  IF ~IsSome(token) \/ TokenRefused(record, t) \/ updateFails
        THEN [ userId |-> None, tokens |-> oAuthAccessToken ]
        ELSE [ userId |-> Some(oAuthAccessToken[Get(record)].userId),
               tokens |-> [oAuthAccessToken EXCEPT ![Get(record)].lastUsedAt = Some(t)] ]

\* The update written with where: { userId } instead of where: { tokenHash }.
getUserIdFromBearerToken_StampsUser(authHeader, t, updateFails) ==
    LET token == extractBearerToken(authHeader)
        record == IF IsSome(token) THEN FindToken(Get(token)) ELSE None
    IN  IF ~IsSome(token) \/ TokenRefused(record, t)
        THEN [ userId |-> None, tokens |-> oAuthAccessToken ]
        ELSE [ userId |-> Some(oAuthAccessToken[Get(record)].userId),
               tokens |-> IF updateFails THEN oAuthAccessToken
                          ELSE [ i \in 1..Len(oAuthAccessToken) |->
                                   IF oAuthAccessToken[i].userId = oAuthAccessToken[Get(record)].userId
                                   THEN [oAuthAccessToken[i] EXCEPT !.lastUsedAt = Some(t)]
                                   ELSE oAuthAccessToken[i] ] ]

getUserIdFromBearerToken(authHeader, t, updateFails) ==
    LET token == extractBearerToken(authHeader)
        record == IF IsSome(token) THEN FindToken(Get(token)) ELSE None
    IN  IF ~IsSome(token) \/ TokenRefused(record, t)
        THEN [ userId |-> None, tokens |-> oAuthAccessToken ]
        ELSE [ userId |-> Some(oAuthAccessToken[Get(record)].userId),
               tokens |-> IF updateFails THEN oAuthAccessToken
                          ELSE [oAuthAccessToken EXCEPT ![Get(record)].lastUsedAt = Some(t)] ]

\* ================================================================== tools/call
ToolNames ==
    { "query_users_by_email", "new_game", "move_piece", "snapshot", "status",
      "get_game_status", "history", "get_game_history", "list_games", "get_game",
      "get_chat_messages", "post_chat_message" }

\* The tools whose executor calls requireAuth before it parses its arguments.
AuthFirstTools == {"new_game", "move_piece", "post_chat_message"}

Throw(message) == [throws |-> TRUE, message |-> message, tool |-> "", userId |-> None]

\* What a tool does once its caller and arguments are accepted: it runs for
\* userId (the game logic is not part of this model).
Ran(name, userId) == [throws |-> FALSE, message |-> "", tool |-> name, userId |-> userId]

\* requireAuth: TRUE when it throws.
requireAuth_Never(userId) == FALSE

requireAuth(userId) == ~IsSome(userId)

\* tool.execute(args, ctx) of the registered tool called name.  args.valid
\* tells whether the arguments satisfy the tool's schema.
ToolExecute(name, args, userId) ==
    IF name \in AuthFirstTools
    THEN IF requireAuth(userId) THEN Throw("Authentication required")
         ELSE IF ~args.valid THEN Throw("ZodError")
         ELSE Ran(name, userId)
    ELSE IF ~args.valid THEN Throw("ZodError")
    ELSE IF name = "list_games" /\ args.scope = "my" /\ requireAuth(userId)
    THEN Throw("Authentication required")
    ELSE Ran(name, userId)

executeTool_AnyName(name, args, userId) ==
    ToolExecute(name, args, userId)

executeTool(name, args, userId) ==
    IF name \notin ToolNames
    THEN Throw("Unknown tool: " \o name)
    ELSE ToolExecute(name, args, userId)

jsonRpcSuccess(result) ==
    [status |-> 200, code |-> 0, message |-> "", result |-> Some(result), wwwAuthenticate |-> FALSE]

jsonRpcError(code, message, status, www) ==
    [status |-> status, code |-> code, message |-> message, result |-> None, wwwAuthenticate |-> www]

\* The tools/call branch of POST /api/mcp, given the caller's session user, the
\* user of the bearer token, the tool name and the arguments.
ToolsCallResponse_BearerFirst(session, bearerUserId, name, args) ==
    IF ~Truthy(name)
    THEN jsonRpcError(-32602, "Invalid params: tool name is required", 400, FALSE)
    ELSE LET result == executeTool(Get(name), args,
                                   IF IsSome(bearerUserId) THEN bearerUserId ELSE session)
         IN  IF ~result.throws THEN jsonRpcSuccess(result)
             ELSE IF result.message = "Authentication required"
             THEN jsonRpcError(-32001, result.message, 401, TRUE)
             ELSE jsonRpcError(-32000, result.message, 400, FALSE)

ToolsCallResponse(session, bearerUserId, name, args) ==
    IF ~Truthy(name)
    THEN jsonRpcError(-32602, "Invalid params: tool name is required", 400, FALSE)
    ELSE LET result == executeTool(Get(name), args,
                                   IF IsSome(session) THEN session ELSE bearerUserId)
         IN  IF ~result.throws THEN jsonRpcSuccess(result)
             ELSE IF result.message = "Authentication required"
             THEN jsonRpcError(-32001, result.message, 401, TRUE)
             ELSE jsonRpcError(-32000, result.message, 400, FALSE)

ToolsCall(req) ==
    LET bearer == getUserIdFromBearerToken(req.authorization, now, req.updateFails)
    IN  /\ last = NoInvocation
        /\ oAuthAccessToken' = bearer.tokens
        /\ last' = [endpoint |-> "tools/call", req |-> req, at |-> now,
                    resp |-> ToolsCallResponse(req.session, bearer.userId, req.name, req.args)]
        /\ UNCHANGED <<now, events, allowedClientIds, oAuthCode, exchange, appVars>>

\* ================================================================ POST /api/mcp
\* getBaseUrl(req): the public base URL of the deployment.
BaseUrl == "https://chess.example"

\* getWwwAuthenticateHeader(baseUrl): the challenge sent with -32001, as its
\* scheme and its parameters.
getWwwAuthenticateHeader(baseUrl) ==
    [ scheme |-> "Bearer",
      realm |-> "mcp-chess",
      authorization_uri |-> baseUrl \o "/oauth/authorize",
      resource_metadata |-> baseUrl \o "/.well-known/oauth-protected-resource",
      scope |-> OAUTH_SCOPE ]

\* The headers of a response of jsonRpcError: www-authenticate when the
\* tools/call branch passed it.
ResponseHeaders(response) ==
    IF response.wwwAuthenticate THEN Some(getWwwAuthenticateHeader(BaseUrl)) ELSE None

\* toolDefs in the order of the registry, and the names tools/list marks.
toolDefs ==
    << "query_users_by_email", "new_game", "move_piece", "snapshot", "status",
       "get_game_status", "history", "get_game_history", "list_games", "get_game",
       "get_chat_messages", "post_chat_message" >>

readOnlyToolNames_WithChat ==
    { "query_users_by_email", "snapshot", "status", "get_game_status", "history",
      "get_game_history", "list_games", "get_game", "get_chat_messages",
      "post_chat_message" }

readOnlyToolNames ==
    { "query_users_by_email", "snapshot", "status", "get_game_status", "history",
      "get_game_history", "list_games", "get_game", "get_chat_messages" }

\* The entry of tools/list for one tool (description and inputSchema are left
\* out): annotations is present, with readOnlyHint true, for the marked names.
ToolListing(name) ==
    [ name |-> name,
      annotations |-> IF name \in readOnlyToolNames
                      THEN Some([readOnlyHint |-> TRUE]) ELSE None ]

ToolsList == [kind |-> "tools", tools |-> [i \in 1..Len(toolDefs) |-> ToolListing(toolDefs[i])]]

\* The request body as req.json() returns it: "malformed" when it throws,
\* "null" for the JSON value null, "scalar" for a number, string, boolean or
\* array (its id, method and params read as undefined), "object" otherwise.
MalformedBody == [json |-> "malformed"]
NullBody == [json |-> "null"]
ScalarBody == [json |-> "scalar"]
ObjectBody(id, method, params) == [json |-> "object", id |-> id, method |-> method, params |-> params]

\* const { id, method, params } = body
BodyField(body, field) == IF body.json = "object" THEN body[field] ELSE None

\* params?.name when it is a string (typeof name !== "string" reads as absent),
\* and params?.arguments ?? {}.
Params(name, args) == [name |-> name, arguments |-> args]
NameOf(params) ==
    IF IsSome(params) /\ Get(params).name.type = "string" THEN Some(Get(params).name.value)
    ELSE None
\* The schemas the empty object {} satisfies, scope defaulting to "all".
EmptyArguments(name) ==
    [valid |-> name \in {Some("list_games"), Some("query_users_by_email")}, scope |-> "all"]
ArgumentsOf(params, name) ==
    IF IsSome(params) /\ IsSome(Get(params).arguments) THEN Get(Get(params).arguments)
    ELSE EmptyArguments(name)

StringName(value) == [type |-> "string", value |-> value]
NumberName == [type |-> "number", value |-> ""]
MissingName == [type |-> "undefined", value |-> ""]

\* The response with the id it echoes (id ?? null); the acknowledgment of a
\* notification; and the outcome of a request whose handler threw.
Envelope(id, response) == [kind |-> "jsonrpc", id |-> id, response |-> response]
Acknowledged == [kind |-> "empty", id |-> None, response |-> [status |-> 204]]
Unhandled == [kind |-> "unhandled", id |-> None, response |-> [status |-> 500]]

DbError == "Database is not ready"

Methods ==
    { "notifications/initialized", "ping", "initialize", "tools/list", "resources/list",
      "resources/templates/list", "prompts/list", "tools/call" }

\* The branches of POST before tools/call and after it.
Dispatch(method) ==
    IF method = Some("ping") THEN jsonRpcSuccess([kind |-> "ping"])
    ELSE IF method = Some("initialize") THEN jsonRpcSuccess([kind |-> "initialize"])
    ELSE IF method = Some("tools/list") THEN jsonRpcSuccess(ToolsList)
    ELSE IF method = Some("resources/list") THEN jsonRpcSuccess([kind |-> "resources"])
    ELSE IF method = Some("resources/templates/list")
    THEN jsonRpcSuccess([kind |-> "resourceTemplates"])
    ELSE IF method = Some("prompts/list") THEN jsonRpcSuccess([kind |-> "prompts"])
    ELSE jsonRpcError(-32601,
                      "Method not found: " \o (IF IsSome(method) THEN Get(method) ELSE "<missing>"),
                      400, FALSE)

\* POST /api/mcp at time t: the response and the token table after it.
McpPostOutcome_SessionSkipsBearer(req, t) ==
    LET id == BodyField(req.body, "id")
        method == BodyField(req.body, "method")
        params == BodyField(req.body, "params")
        bearer == IF IsSome(req.session) \/ ~Truthy(NameOf(params))
                  THEN [ userId |-> None, tokens |-> oAuthAccessToken ]
                  ELSE getUserIdFromBearerToken(req.authorization, t, req.updateFails)
    IN  IF req.body.json = "malformed"
        THEN [ resp |-> Envelope(None, jsonRpcError(-32700, "Invalid JSON", 400, FALSE)),
               tokens |-> oAuthAccessToken ]
        ELSE IF req.body.json = "null"
        THEN [ resp |-> Unhandled, tokens |-> oAuthAccessToken ]
        ELSE IF ~req.dbReady
        THEN [ resp |-> Envelope(id, jsonRpcError(-32000, DbError, 400, FALSE)),
               tokens |-> oAuthAccessToken ]
        ELSE IF method = Some("notifications/initialized")
        THEN [ resp |-> Acknowledged, tokens |-> oAuthAccessToken ]
        ELSE IF method = Some("tools/call")
        THEN [ resp |-> Envelope(id, ToolsCallResponse(req.session, bearer.userId,
                                                       NameOf(params),
                                                       ArgumentsOf(params, NameOf(params)))),
               tokens |-> bearer.tokens ]
        ELSE [ resp |-> Envelope(id, Dispatch(method)), tokens |-> oAuthAccessToken ]

McpPostOutcome(req, t) ==
    LET id == BodyField(req.body, "id")
        method == BodyField(req.body, "method")
        params == BodyField(req.body, "params")
        bearer == getUserIdFromBearerToken(req.authorization, t, req.updateFails)
    IN  IF req.body.json = "malformed"
        THEN [ resp |-> Envelope(None, jsonRpcError(-32700, "Invalid JSON", 400, FALSE)),
               tokens |-> oAuthAccessToken ]
        ELSE IF req.body.json = "null"
        THEN [ resp |-> Unhandled, tokens |-> oAuthAccessToken ]
        ELSE IF ~req.dbReady
        THEN [ resp |-> Envelope(id, jsonRpcError(-32000, DbError, 400, FALSE)),
               tokens |-> oAuthAccessToken ]
        ELSE IF method = Some("notifications/initialized")
        THEN [ resp |-> Acknowledged, tokens |-> oAuthAccessToken ]
        ELSE IF method = Some("tools/call")
        THEN [ resp |-> Envelope(id, ToolsCallResponse(req.session, bearer.userId,
                                                       NameOf(params),
                                                       ArgumentsOf(params, NameOf(params)))),
               tokens |-> bearer.tokens ]
        ELSE [ resp |-> Envelope(id, Dispatch(method)), tokens |-> oAuthAccessToken ]

McpPost(req) ==
    LET outcome == McpPostOutcome(req, now)
    IN  /\ last = NoInvocation
        /\ oAuthAccessToken' = outcome.tokens
        /\ last' = [endpoint |-> "mcp", req |-> req, at |-> now, resp |-> outcome.resp]
        /\ UNCHANGED <<now, events, allowedClientIds, oAuthCode, exchange, appVars>>

\* The response of the invocation that completed last leaves the server.  Every
\* handler step waits for it, so that last always describes the latest step.
Deliver ==
    /\ last # NoInvocation
    /\ last' = NoInvocation
    /\ UNCHANGED <<now, events, allowedClientIds, oAuthCode, oAuthAccessToken, exchange, appVars>>

\* ================================================================ ensureDbReady
oauthVars == <<now, events, allowedClientIds, oAuthCode, oAuthAccessToken, exchange, last>>

\* What the catch handler of ensureDbReady assigns to global.dbReadyPromise.
ResetOnFailure_KeepsMemo(memo) == memo

ResetOnFailure(memo) == None

\* ensureDbReady called by c, up to its return: the memoized promise, or a new
\* one made from ensureDbReadyInner() (db.$connect() in the other build) and
\* memoized.  c then awaits the promise.
ensureDbReady(c) ==
    /\ callers[c].pc = "idle"
    /\ IF IsSome(dbReadyPromise)
       THEN /\ callers' = [callers EXCEPT ![c] =
                   [pc |-> "await", promise |-> Get(dbReadyPromise), outcome |-> ""]]
            /\ UNCHANGED <<dbReadyPromise, promises>>
       ELSE /\ Len(promises) < MaxAttempts
            /\ promises' = Append(promises, "pending")
            /\ dbReadyPromise' = Some(Len(promises) + 1)
            /\ callers' = [callers EXCEPT ![c] =
                   [pc |-> "await", promise |-> Len(promises) + 1, outcome |-> ""]]
    /\ UNCHANGED <<oauthVars, gameVars, envVars>>

\* The initialization of promise k completes.
InnerResolves(k) ==
    /\ promises[k] = "pending"
    /\ promises' = [promises EXCEPT ![k] = "fulfilled"]
    /\ UNCHANGED <<dbReadyPromise, callers, oauthVars, gameVars, envVars>>

\* The initialization of promise k throws: its catch handler is queued.
InnerRejects(k) ==
    /\ promises[k] = "pending"
    /\ promises' = [promises EXCEPT ![k] = "rejecting"]
    /\ UNCHANGED <<dbReadyPromise, callers, oauthVars, gameVars, envVars>>

\* The catch handler of promise k runs: it clears the memo and rethrows.
CatchHandler(k) ==
    /\ promises[k] = "rejecting"
    /\ dbReadyPromise' = ResetOnFailure(dbReadyPromise)
    /\ promises' = [promises EXCEPT ![k] = "rejected"]
    /\ UNCHANGED <<callers, oauthVars, gameVars, envVars>>

\* c resumes after its await with the outcome of the promise it got.
Resume(c) ==
    /\ callers[c].pc = "await"
    /\ promises[callers[c].promise] \in {"fulfilled", "rejected"}
    /\ callers' = [callers EXCEPT ![c] =
           [@ EXCEPT !.pc = "done",
                     !.outcome = IF promises[callers[c].promise] = "fulfilled"
                                 THEN "returned" ELSE "threw"]]
    /\ UNCHANGED <<dbReadyPromise, promises, oauthVars, gameVars, envVars>>

\* The request of c is over; c stands for the next request.
NextRequest(c) ==
    /\ callers[c].pc = "done"
    /\ callers' = [callers EXCEPT ![c] = IdleCaller]
    /\ UNCHANGED <<dbReadyPromise, promises, oauthVars, gameVars, envVars>>

\* =================================================================== game tools
\* A position as far as the tools look at it: whose turn it is (chess.turn())
\* and how many half-moves were played.  new Chess() is the start position.
StartFen == [turn |-> "w", n |-> 0]
AfterMove(fen) == [turn |-> IF fen.turn = "w" THEN "b" ELSE "w", n |-> fen.n + 1]

\* value.trim().toLowerCase() on the addresses the model sends.
LowerEmail(value) ==
    CASE value = "A@X" -> "a@x"
      [] value = "C@x" -> "c@x"
      [] OTHER -> value

\* db.user.findUnique by id and by email, db.game.findUnique: the row, or None.
FindUserById(id) ==
    LET hits == {i \in 1..Len(user) : user[i].id = id}
    IN  IF hits = {} THEN None ELSE Some(user[CHOOSE i \in hits : TRUE])
FindUserByEmail(email) ==
    LET hits == {i \in 1..Len(user) : user[i].email = Some(email)}
    IN  IF hits = {} THEN None ELSE Some(user[CHOOSE i \in hits : TRUE])
FindGame(gameId) ==
    IF gameId \in 1..Len(game) THEN Some(game[gameId]) ELSE None

\* The id of the n-th row of User.
NewUserId(n) == <<"u1", "u2", "u3", "u4", "u5", "u6", "u7", "u8">>[n]

\* What a tool refuses with before it changes anything: the message it throws
\* (or None) and the tables it has read by then.
Refusal(message, touched) == [message |-> Some(message), touched |-> touched]
Accepted(touched) == [message |-> None, touched |-> touched]

\* The catch of tools/call: the JSON-RPC response to what the executor did.
RespondTo_InternalError(result) ==
    IF ~result.throws THEN jsonRpcSuccess(result)
    ELSE IF result.message = "Authentication required"
    THEN jsonRpcError(-32001, result.message, 401, TRUE)
    ELSE jsonRpcError(-32000, "Internal error", 400, FALSE)

RespondTo(result) ==
    IF ~result.throws THEN jsonRpcSuccess(result)
    ELSE IF result.message = "Authentication required"
    THEN jsonRpcError(-32001, result.message, 401, TRUE)
    ELSE jsonRpcError(-32000, result.message, 400, FALSE)

\* A tools/call as the executor sees it: the tool, ctx.userId and the
\* arguments.
ToolRequest(name, userId, args) == [name |-> name, userId |-> userId, args |-> args]

\* The call is answered: result is what the executor returned or threw, and
\* touched the tables it read or wrote.
ToolAnswer(req, result, touched) ==
    [endpoint |-> "tool", req |-> req, at |-> now, resp |-> RespondTo(result), touched |-> touched]

Returned(name, userId, data) ==
    [throws |-> FALSE, message |-> "", tool |-> name, userId |-> userId, data |-> data]

\* ---------------------------------------------------------------- new_game
new_game_check_AllowsSelf(userId, args) ==
    IF requireAuth(userId) THEN Refusal("Authentication required", {})
    ELSE IF ~args.valid THEN Refusal("ZodError", {})
    ELSE IF ~IsSome(FindUserById(Get(userId)))
    THEN Refusal("Authenticated user not found", {"User"})
    ELSE Accepted({"User", "Game"})

new_game_check(userId, args) ==
    IF requireAuth(userId) THEN Refusal("Authentication required", {})
    ELSE IF ~args.valid THEN Refusal("ZodError", {})
    ELSE IF ~IsSome(FindUserById(Get(userId)))
    THEN Refusal("Authenticated user not found", {"User"})
    ELSE IF /\ IsSome(Get(FindUserById(Get(userId))).email)
            /\ LowerEmail(Get(Get(FindUserById(Get(userId))).email)) = LowerEmail(args.opponentEmail)
    THEN Refusal("Cannot create a game against yourself", {"User"})
    ELSE Accepted({"User", "Game"})

\* new_game: the opponent is found by e-mail or created, the game is created
\* with the caller on the side of playAs, the invitation is handed to the
\* mailer and game.created is published.
new_game(req) ==
    LET check == new_game_check(req.userId, req.args)
        email == LowerEmail(req.args.opponentEmail)
        found == FindUserByEmail(email)
        opponentId == IF IsSome(found) THEN Get(found).id ELSE NewUserId(Len(user) + 1)
        me == Get(req.userId)
        row == [ id |-> Len(game) + 1,
                 whiteId |-> IF req.args.playAs = "white" THEN me ELSE opponentId,
                 blackId |-> IF req.args.playAs = "black" THEN me ELSE opponentId,
                 createdById |-> me,
                 status |-> "ACTIVE",
                 fen |-> StartFen,
                 isPublic |-> TRUE,
                 createdAt |-> now,
                 updatedAt |-> now ]
    IN  /\ last = NoInvocation
        /\ IF IsSome(check.message)
           THEN /\ last' = ToolAnswer(req, Throw(Get(check.message)), check.touched)
                /\ UNCHANGED <<events, user, game, outbox>>
           ELSE /\ events < MaxEvents
                /\ events' = events + 1
                /\ user' = IF IsSome(found) THEN user
                           ELSE Append(user, [id |-> opponentId, email |-> Some(email)])
                /\ game' = Append(game, row)
                /\ outbox' = outbox \o
                       << [kind |-> "invitation", to |-> email, gameId |-> row.id],
                          [kind |-> "game.created", to |-> "", gameId |-> row.id] >>
                /\ last' = ToolAnswer(req,
                               Returned("new_game", req.userId,
                                        [gameId |-> row.id, whiteId |-> row.whiteId,
                                         blackId |-> row.blackId]),
                               check.touched)
        /\ UNCHANGED <<now, allowedClientIds, oAuthCode, oAuthAccessToken, exchange,
                       guardVars, envVars, move, chatMessage, tx>>

\* -------------------------------------------------------------- move_piece
\* The colour userId plays in row g, or None.
playerColor(userId, g) ==
    IF userId = g.whiteId THEN Some("w")
    ELSE IF userId = g.blackId THEN Some("b")
    ELSE None

\* move_piece up to chess.move: requireAuth, the schema, then inside the
\* transaction the game row and the checks on it.  args.legal tells whether
\* chess.move accepts from/to in the position read.
move_piece_check_AnyPlayerMoves(userId, args) ==
    IF requireAuth(userId) THEN Refusal("Authentication required", {})
    ELSE IF ~args.valid THEN Refusal("ZodError", {})
    ELSE IF ~IsSome(FindGame(args.gameId)) THEN Refusal("Game not found", {"Game"})
    ELSE IF Get(FindGame(args.gameId)).status # "ACTIVE"
    THEN Refusal("Game is not active", {"Game"})
    ELSE IF ~IsSome(playerColor(Get(userId), Get(FindGame(args.gameId))))
    THEN Refusal("Only game players can move pieces", {"Game"})
    ELSE IF ~args.legal THEN Refusal("Illegal move", {"Game"})
    ELSE Accepted({"Game", "Move"})

move_piece_check_IgnoresStatus(userId, args) ==
    IF requireAuth(userId) THEN Refusal("Authentication required", {})
    ELSE IF ~args.valid THEN Refusal("ZodError", {})
    ELSE IF ~IsSome(FindGame(args.gameId)) THEN Refusal("Game not found", {"Game"})
    ELSE IF ~IsSome(playerColor(Get(userId), Get(FindGame(args.gameId))))
    THEN Refusal("Only game players can move pieces", {"Game"})
    ELSE IF Get(FindGame(args.gameId)).fen.turn # Get(playerColor(Get(userId), Get(FindGame(args.gameId))))
    THEN Refusal("It is not your turn", {"Game"})
    ELSE IF ~args.legal THEN Refusal("Illegal move", {"Game"})
    ELSE Accepted({"Game", "Move"})

move_piece_check(userId, args) ==
    IF requireAuth(userId) THEN Refusal("Authentication required", {})
    ELSE IF ~args.valid THEN Refusal("ZodError", {})
    ELSE IF ~IsSome(FindGame(args.gameId)) THEN Refusal("Game not found", {"Game"})
    ELSE IF Get(FindGame(args.gameId)).status # "ACTIVE"
    THEN Refusal("Game is not active", {"Game"})
    ELSE IF ~IsSome(playerColor(Get(userId), Get(FindGame(args.gameId))))
    THEN Refusal("Only game players can move pieces", {"Game"})
    ELSE IF Get(FindGame(args.gameId)).fen.turn # Get(playerColor(Get(userId), Get(FindGame(args.gameId))))
    THEN Refusal("It is not your turn", {"Game"})
    ELSE IF ~args.legal THEN Refusal("Illegal move", {"Game"})
    ELSE Accepted({"Game", "Move"})

\* move_piece when a refused call still announces the game.
move_piece_RefusalPublishes(req) ==
    LET check == move_piece_check(req.userId, req.args)
        g == Get(FindGame(req.args.gameId))
    IN  /\ last = NoInvocation
        /\ IF IsSome(check.message)
           THEN /\ last' = ToolAnswer(req, Throw(Get(check.message)), check.touched)
                /\ outbox' = Append(outbox, [kind |-> "game.updated", to |-> "",
                                              gameId |-> req.args.gameId])
                /\ UNCHANGED <<events, tx>>
           ELSE /\ events < MaxEvents
                /\ events' = events + 1
                /\ tx' = Append(tx,
                       [ pc |-> "count", kind |-> "move_piece", req |-> req,
                         gameId |-> g.id, userId |-> Get(req.userId),
                         fenBefore |-> g.fen, fenAfter |-> AfterMove(g.fen),
                         nextStatus |-> IF req.args.ends THEN "FINISHED" ELSE "ACTIVE",
                         ply |-> 0 ])
                /\ UNCHANGED <<last, outbox>>
        /\ UNCHANGED <<now, allowedClientIds, oAuthCode, oAuthAccessToken, exchange,
                       guardVars, envVars, user, game, move, chatMessage>>

\* The transaction of move_piece from tx.game.findUnique to chess.fen() after
\* the move: the call is refused, or the transaction goes on to
\* tx.move.count with the position it read and the one it computed.
\* args.ends tells whether chess.isGameOver() holds after the move.
move_piece(req) ==
    LET check == move_piece_check(req.userId, req.args)
        g == Get(FindGame(req.args.gameId))
    IN  /\ last = NoInvocation
        /\ IF IsSome(check.message)
           THEN /\ last' = ToolAnswer(req, Throw(Get(check.message)), check.touched)
                /\ UNCHANGED <<events, tx>>
           ELSE /\ events < MaxEvents
                /\ events' = events + 1
                /\ tx' = Append(tx,
                       [ pc |-> "count", kind |-> "move_piece", req |-> req,
                         gameId |-> g.id, userId |-> Get(req.userId),
                         fenBefore |-> g.fen, fenAfter |-> AfterMove(g.fen),
                         nextStatus |-> IF req.args.ends THEN "FINISHED" ELSE "ACTIVE",
                         ply |-> 0 ])
                /\ UNCHANGED last
        /\ UNCHANGED <<now, allowedClientIds, oAuthCode, oAuthAccessToken, exchange,
                       guardVars, envVars, user, game, move, chatMessage, outbox>>

\* tx.move.count({ where: { gameId } }) of transaction p.
MovesOf(gameId) == {i \in 1..Len(move) : move[i].gameId = gameId}

move_piece_count(p) ==
    /\ last = NoInvocation
    /\ tx[p].kind = "move_piece"
    /\ tx[p].pc = "count"
    /\ tx' = [tx EXCEPT ![p] = [@ EXCEPT !.pc = "write", !.ply = Cardinality(MovesOf(tx[p].gameId))]]
    /\ UNCHANGED <<oauthVars, guardVars, envVars, user, game, move, chatMessage, outbox>>

\* tx.game.update, tx.move.create and the commit of transaction p, then the
\* events.  The transaction runs on the snapshot of its first read: the tables
\* are those of migration.sql (SQLite) or of a MongoDB deployment
\* (scripts/db.mjs), and both refuse the write of a row that was written since
\* the transaction read it, which rolls the transaction back.  The unique
\* index on (gameId, ply) refuses a second move with the same ply.
Stale_Never(t) == FALSE

Stale(t) == t.kind = "move_piece" /\ game[t.gameId].fen # t.fenBefore

move_piece_write(p) ==
    LET t == tx[p]
        refused == Stale(t)
        clash == refused \/ \E i \in MovesOf(t.gameId) : move[i].ply = t.ply + 1
        row == [ gameId |-> t.gameId, byUserId |-> t.userId, ply |-> t.ply + 1,
                 fenBefore |-> t.fenBefore, fenAfter |-> t.fenAfter, createdAt |-> now ]
    IN  /\ tx[p].kind = "move_piece"
        /\ tx[p].pc = "write"
        /\ last = NoInvocation
        /\ tx' = [tx EXCEPT ![p] = [@ EXCEPT !.pc = "done"]]
        /\ IF clash
           THEN /\ last' = ToolAnswer(t.req,
                               Throw(IF refused THEN "Transaction failed due to a write conflict"
                                     ELSE "Unique constraint failed"),
                               {"Game", "Move"})
                /\ UNCHANGED <<game, move, outbox>>
           ELSE /\ game' = [game EXCEPT ![t.gameId] =
                       [@ EXCEPT !.fen = t.fenAfter, !.status = t.nextStatus, !.updatedAt = now]]
                /\ move' = Append(move, row)
                /\ outbox' = outbox \o
                       << [kind |-> "move.created", to |-> "", gameId |-> t.gameId],
                          [kind |-> "game.updated", to |-> "", gameId |-> t.gameId] >> \o
                       (IF t.nextStatus = "FINISHED"
                        THEN << [kind |-> "game.finished", to |-> "", gameId |-> t.gameId] >>
                        ELSE <<>>)
                /\ last' = ToolAnswer(t.req,
                               Returned("move_piece", Some(t.userId),
                                        [gameId |-> t.gameId, ply |-> t.ply + 1,
                                         fen |-> t.fenAfter, gameStatus |-> t.nextStatus]),
                               {"Game", "Move"})
        /\ UNCHANGED <<now, events, allowedClientIds, oAuthCode, oAuthAccessToken, exchange,
                       guardVars, envVars, user, chatMessage>>

\* ------------------------------------------------------- post_chat_message
post_chat_message_check_NoPlayerCheck(userId, args) ==
    IF requireAuth(userId) THEN Refusal("Authentication required", {})
    ELSE IF ~args.valid THEN Refusal("ZodError", {})
    ELSE IF ~IsSome(FindGame(args.gameId)) \/ ~Get(FindGame(args.gameId)).isPublic
    THEN Refusal("Game not found", {"Game"})
    ELSE Accepted({"Game", "ChatMessage"})

post_chat_message_check_ParsesFirst(userId, args) ==
    IF ~args.valid THEN Refusal("ZodError", {})
    ELSE IF requireAuth(userId) THEN Refusal("Authentication required", {})
    ELSE IF ~IsSome(FindGame(args.gameId)) \/ ~Get(FindGame(args.gameId)).isPublic
    THEN Refusal("Game not found", {"Game"})
    ELSE IF /\ Get(FindGame(args.gameId)).whiteId # Get(userId)
            /\ Get(FindGame(args.gameId)).blackId # Get(userId)
    THEN Refusal("Only game players can post chat messages", {"Game"})
    ELSE Accepted({"Game", "ChatMessage"})

post_chat_message_check(userId, args) ==
    IF requireAuth(userId) THEN Refusal("Authentication required", {})
    ELSE IF ~args.valid THEN Refusal("ZodError", {})
    ELSE IF ~IsSome(FindGame(args.gameId)) \/ ~Get(FindGame(args.gameId)).isPublic
    THEN Refusal("Game not found", {"Game"})
    ELSE IF /\ Get(FindGame(args.gameId)).whiteId # Get(userId)
            /\ Get(FindGame(args.gameId)).blackId # Get(userId)
    THEN Refusal("Only game players can post chat messages", {"Game"})
    ELSE Accepted({"Game", "ChatMessage"})

post_chat_message(req) ==
    LET check == post_chat_message_check(req.userId, req.args)
        row == [ id |-> Len(chatMessage) + 1, gameId |-> req.args.gameId,
                 userId |-> Get(req.userId), body |-> req.args.body, createdAt |-> now ]
    IN  /\ last = NoInvocation
        /\ IF IsSome(check.message)
           THEN /\ last' = ToolAnswer(req, Throw(Get(check.message)), check.touched)
                /\ UNCHANGED <<events, chatMessage, outbox>>
           ELSE /\ events < MaxEvents
                /\ events' = events + 1
                /\ chatMessage' = Append(chatMessage, row)
                /\ outbox' = Append(outbox, [kind |-> "chat.created", to |-> "", gameId |-> row.gameId])
                /\ last' = ToolAnswer(req,
                               Returned("post_chat_message", req.userId,
                                        [id |-> row.id, body |-> row.body]),
                               check.touched)
        /\ UNCHANGED <<now, allowedClientIds, oAuthCode, oAuthAccessToken, exchange,
                       guardVars, envVars, user, game, move, tx>>

\* ---------------------------------------------------------- the reading tools
GameReaders == {"snapshot", "status", "get_game_status", "history", "get_game_history",
                "get_game", "get_chat_messages"}
ReadingTools == GameReaders \cup {"query_users_by_email", "list_games"}

\* The tables a reading tool reads when it goes through.
ReadBy(name) ==
    CASE name = "query_users_by_email" -> {"User"}
      [] name \in {"snapshot", "status", "get_game_status"} -> {"Game"}
      [] name \in {"history", "get_game_history", "get_game"} -> {"Game", "Move", "User"}
      [] name = "list_games" -> {"Game", "User"}
      [] name = "get_chat_messages" -> {"Game", "ChatMessage", "User"}

\* Every reading tool parses its arguments first; list_games with scope "my"
\* then wants a caller, the tools of one game then read the game.
read_tool_check_ReadsFirst(name, userId, args) ==
    IF name \in GameReaders /\ (~IsSome(FindGame(args.gameId)) \/ ~Get(FindGame(args.gameId)).isPublic)
    THEN Refusal("Game not found", {"Game"})
    ELSE IF ~args.valid THEN Refusal("ZodError", ReadBy(name))
    ELSE Accepted(ReadBy(name))

read_tool_check(name, userId, args) ==
    IF ~args.valid THEN Refusal("ZodError", {})
    ELSE IF name = "list_games" /\ args.scope = "my" /\ requireAuth(userId)
    THEN Refusal("Authentication required", {})
    ELSE IF name \in GameReaders /\ (~IsSome(FindGame(args.gameId)) \/ ~Get(FindGame(args.gameId)).isPublic)
    THEN Refusal("Game not found", {"Game"})
    ELSE Accepted(ReadBy(name))

read_tool(req) ==
    LET check == read_tool_check(req.name, req.userId, req.args)
    IN  /\ last = NoInvocation
        /\ req.name \in ReadingTools
        /\ last' = IF IsSome(check.message)
                   THEN ToolAnswer(req, Throw(Get(check.message)), check.touched)
                   ELSE ToolAnswer(req,
                            Returned(req.name, req.userId,
                                     IF req.name \in GameReaders
                                     THEN [gameId |-> req.args.gameId,
                                           fen |-> Get(FindGame(req.args.gameId)).fen]
                                     ELSE [gameId |-> 0, fen |-> StartFen]),
                            check.touched)
        /\ UNCHANGED <<now, events, allowedClientIds, oAuthCode, oAuthAccessToken, exchange,
                       appVars>>

\* =================================================================== discovery
\* A configured URL (MCP_PUBLIC_URL, NEXTAUTH_URL) is the blanks around it, its
\* scheme as written ("" when it has none), its host and its path; parses
\* tells whether new URL accepts it once it has a scheme.
Configured(pad, scheme, host, path, parses) ==
    [pad |-> pad, scheme |-> scheme, host |-> host, path |-> path, parses |-> parses]

\* /^https?:\/\//i on the schemes the model writes, and the scheme of
\* parsed.origin.
HasHttpScheme(scheme) == scheme \in {"http://", "https://", "HTTPS://"}
OriginScheme(scheme) == IF scheme = "http://" THEN "http://" ELSE "https://"

\* parsed.pathname === "/" ? "" : parsed.pathname.replace(/\/+$/, "")
StripSlashes(path) ==
    CASE path = "" -> ""
      [] path = "/" -> ""
      [] path = "/base/" -> "/base"
      [] path = "/base//" -> "/base"
      [] OTHER -> path

\* normalizeConfiguredBaseUrl: the origin and the path without trailing
\* slashes, or null for a value that is unset, blank or no URL.
normalizeConfiguredBaseUrl(value) ==
    IF ~IsSome(value) THEN None
    ELSE IF Get(value).scheme \o Get(value).host \o Get(value).path = "" THEN None
    ELSE IF ~Get(value).parses THEN None
    ELSE Some((IF HasHttpScheme(Get(value).scheme) THEN OriginScheme(Get(value).scheme)
               ELSE "https://")
              \o Get(value).host \o StripSlashes(Get(value).path))

\* getBaseUrl(req) under the environment env: req is the origin of req.url and
\* the x-forwarded-proto, x-forwarded-host and host headers.
getBaseUrl_ForwardedHostOnly(env, req) ==
    LET mcp == normalizeConfiguredBaseUrl(env.MCP_PUBLIC_URL)
        nextauth == normalizeConfiguredBaseUrl(env.NEXTAUTH_URL)
    IN  IF IsSome(mcp) THEN Get(mcp)
        ELSE IF IsSome(nextauth) THEN Get(nextauth)
        ELSE IF Truthy(req.forwardedProto) /\ Truthy(req.forwardedHost)
        THEN Get(req.forwardedProto) \o "://" \o Get(req.forwardedHost)
        ELSE req.origin

getBaseUrl(env, req) ==
    LET mcp == normalizeConfiguredBaseUrl(env.MCP_PUBLIC_URL)
        nextauth == normalizeConfiguredBaseUrl(env.NEXTAUTH_URL)
        host == IF IsSome(req.forwardedHost) THEN req.forwardedHost ELSE req.host
    IN  IF IsSome(mcp) THEN Get(mcp)
        ELSE IF IsSome(nextauth) THEN Get(nextauth)
        ELSE IF Truthy(req.forwardedProto) /\ Truthy(host)
        THEN Get(req.forwardedProto) \o "://" \o Get(host)
        ELSE req.origin

getProtectedResourceMetadata(baseUrl) ==
    [ resource |-> baseUrl \o "/api/mcp",
      authorization_servers |-> <<baseUrl>>,
      bearer_methods_supported |-> <<"header">>,
      scopes_supported |-> <<OAUTH_SCOPE>> ]

getAuthorizationServerMetadata(baseUrl) ==
    [ issuer |-> baseUrl,
      authorization_endpoint |-> baseUrl \o "/oauth/authorize",
      token_endpoint |-> baseUrl \o "/oauth/token",
      response_types_supported |-> <<"code">>,
      grant_types_supported |-> <<"authorization_code">>,
      token_endpoint_auth_methods_supported |-> <<"none">>,
      code_challenge_methods_supported |-> <<"S256", "plain">>,
      scopes_supported |-> <<OAUTH_SCOPE>> ]

\* GET of the two discovery documents under the environment env.
ProtectedResource(env, req) ==
    /\ last = NoInvocation
    /\ last' = [endpoint |-> "oauth-protected-resource", req |-> req, env |-> env, at |-> now,
                resp |-> getProtectedResourceMetadata(getBaseUrl(env, req))]
    /\ UNCHANGED <<now, events, allowedClientIds, oAuthCode, oAuthAccessToken, exchange,
                   appVars>>

AuthorizationServer(env, req) ==
    /\ last = NoInvocation
    /\ last' = [endpoint |-> "oauth-authorization-server", req |-> req, env |-> env, at |-> now,
                resp |-> getAuthorizationServerMetadata(getBaseUrl(env, req))]
    /\ UNCHANGED <<now, events, allowedClientIds, oAuthCode, oAuthAccessToken, exchange,
                   appVars>>

\* ================================================================ tool content
\* A property of a result object: absent, or a value of some type.  A data URL
\* is its parts: the text before "data:", the media type, the marker before
\* the payload, and the payload.
Absent == None
Str(value) == Some([type |-> "string", value |-> value])
Num(value) == Some([type |-> "number", value |-> value])
DataUrl(lead, mime, marker, payload) ==
    [lead |-> lead, mime |-> mime, marker |-> marker, payload |-> payload]
NoDataUrl == DataUrl("", "", "", "")

\* "key" in result && typeof result.key === "string" ? result.key : null
StringOf(field) ==
    IF IsSome(field) /\ Get(field).type = "string" THEN Some(Get(field).value) ELSE None

\* String.prototype.trim on the payloads the model sends.
TrimData(value) ==
    CASE value = " QUJD " -> "QUJD"
      [] value = "  " -> ""
      [] OTHER -> value

\* startsWith("image/") on the media types the model sends.
StartsWithImage(value) == value \in {"image/png", "image/svg+xml", "image/"}

\* The media types /image\/[a-zA-Z0-9.+-]+/ matches in full and the payloads
\* /[A-Za-z0-9+\/=_-]+/ matches in full, among those the model sends.
ImageMediaTypes == {"image/png", "image/svg+xml"}
Base64Payloads == {"QUJD", "QUJD_-="}

\* parseImageDataUrl: the media type and the payload, or null.
parseImageDataUrl_AnyPayload(dataUrl) ==
    IF ~IsSome(dataUrl) \/ Get(dataUrl) = NoDataUrl THEN None
    ELSE IF /\ Get(dataUrl).lead = ""
            /\ Get(dataUrl).mime \in ImageMediaTypes
            /\ Get(dataUrl).marker = ";base64,"
    THEN Some([mimeType |-> Get(dataUrl).mime, base64 |-> Get(dataUrl).payload])
    ELSE None

parseImageDataUrl(dataUrl) ==
    IF ~IsSome(dataUrl) \/ Get(dataUrl) = NoDataUrl THEN None
    ELSE IF /\ Get(dataUrl).lead = ""
            /\ Get(dataUrl).mime \in ImageMediaTypes
            /\ Get(dataUrl).marker = ";base64,"
            /\ Get(dataUrl).payload \in Base64Payloads
    THEN Some([mimeType |-> Get(dataUrl).mime, base64 |-> Get(dataUrl).payload])
    ELSE None

\* JSON.stringify(result): the text that parses back to result.
JSONstringify(result) == [json |-> result]

TextBlock(text) == [type |-> "text", text |-> Some(text), data |-> "", mimeType |-> ""]
ImageBlock(data, mimeType) == [type |-> "image", text |-> None, data |-> data, mimeType |-> mimeType]

\* buildToolContent(name, result).  result.kind is "object" for an object
\* (typeof "object" and not null) and names what result is otherwise.
buildToolContent(name, result) ==
    LET rawData == IF IsSome(StringOf(result.data))
                   THEN Some(TrimData(Get(StringOf(result.data)))) ELSE None
        rawMimeType == StringOf(result.mimeType)
        parsed == parseImageDataUrl(StringOf(result.dataUrl))
    IN  IF name = "snapshot" /\ result.kind = "object"
        THEN IF Truthy(rawData) /\ IsSome(rawMimeType) /\ StartsWithImage(Get(rawMimeType))
             THEN << ImageBlock(Get(rawData), Get(rawMimeType)) >>
             ELSE IF IsSome(parsed)
             THEN << ImageBlock(Get(parsed).base64,
                                IF IsSome(rawMimeType) THEN Get(rawMimeType)
                                ELSE Get(parsed).mimeType) >>
             ELSE << TextBlock(JSONstringify(result)) >>
        ELSE << TextBlock(JSONstringify(result)) >>

\* The result of a successful tools/call.
ToolsCallSuccess(name, result) ==
    jsonRpcSuccess([content |-> buildToolContent(name, result), structuredContent |-> result])

\* The tool returned result and tools/call answers.
ToolsCallResult(name, result) ==
    /\ last = NoInvocation
    /\ last' = [endpoint |-> "tools/call result", req |-> [name |-> name, result |-> result],
                at |-> now, resp |-> ToolsCallSuccess(name, result)]
    /\ UNCHANGED <<now, events, allowedClientIds, oAuthCode, oAuthAccessToken, exchange,
                   appVars>>

\* ============================================================ the turn reminder
\* String.prototype.trim on the keys the model sends.
TrimKey(value) ==
    CASE value = " k " -> "k"
      [] value = " " -> ""
      [] OTHER -> value

\* readReminderKey: the x-reminder-key header when it is not empty, else the
\* rest of an Authorization header that starts with "bearer " in any case,
\* trimmed; else null.
readReminderKey(req) ==
    IF IsSome(req.xReminderKey) /\ Get(req.xReminderKey) # "" THEN req.xReminderKey
    ELSE IF IsSome(req.authorization) /\ toLowerCase(Get(req.authorization).scheme) = "bearer"
    THEN Some(TrimKey(Get(req.authorization).rest))
    ELSE None

\* The responses of the endpoint: the status, the error, and for a 200 whether
\* the mailer was called ("mailer": its result is spread into the body) and
\* why not.
ReminderError(status, error) ==
    [status |-> status, error |-> error, sent |-> "false", skippedReason |-> ""]
ReminderSkipped(reason) ==
    [status |-> 200, error |-> "", sent |-> "false", skippedReason |-> reason]
ReminderMailed ==
    [status |-> 200, error |-> "", sent |-> "mailer", skippedReason |-> ""]

MsPerMinute == 60000

\* The user to move in game row g: game.white or game.black by chess.turn().
toMoveUser(g) == Get(FindUserById(IF g.fen.turn = "w" THEN g.whiteId ELSE g.blackId))

\* POST up to the read of the game: the response the handler returns there,
\* or None when it goes on to read the last move.
ReminderEarly_NoKeyCheck(req) ==
    IF ~req.parses THEN Some(ReminderError(400, "Invalid JSON"))
    ELSE IF ~req.payload.valid THEN Some(ReminderError(400, "Invalid payload"))
    ELSE IF ~IsSome(FindGame(req.payload.gameId)) THEN Some(ReminderError(404, "Game not found"))
    ELSE IF Get(FindGame(req.payload.gameId)).status # "ACTIVE"
    THEN Some(ReminderSkipped("Game is not active"))
    ELSE IF ~Truthy(toMoveUser(Get(FindGame(req.payload.gameId))).email)
    THEN Some(ReminderSkipped("Current player has no email"))
    ELSE None

ReminderEarly(req) ==
    IF IsSome(reminderApiKey) /\ Get(reminderApiKey) # "" /\ readReminderKey(req) # reminderApiKey
    THEN Some(ReminderError(401, "Unauthorized"))
    ELSE IF ~req.parses THEN Some(ReminderError(400, "Invalid JSON"))
    ELSE IF ~req.payload.valid THEN Some(ReminderError(400, "Invalid payload"))
    ELSE IF ~IsSome(FindGame(req.payload.gameId)) THEN Some(ReminderError(404, "Game not found"))
    ELSE IF Get(FindGame(req.payload.gameId)).status # "ACTIVE"
    THEN Some(ReminderSkipped("Game is not active"))
    ELSE IF ~Truthy(toMoveUser(Get(FindGame(req.payload.gameId))).email)
    THEN Some(ReminderSkipped("Current player has no email"))
    ELSE None

\* The first part of POST: it answers, or is suspended in db.move.findFirst
\* with the game it read.
reminder(req) ==
    LET early == ReminderEarly(req)
        g == Get(FindGame(req.payload.gameId))
    IN  /\ last = NoInvocation
        /\ IF IsSome(early)
           THEN /\ last' = [endpoint |-> "reminder", req |-> req, at |-> now, resp |-> Get(early)]
                /\ UNCHANGED <<events, tx>>
           ELSE /\ events < MaxEvents
                /\ events' = events + 1
                /\ tx' = Append(tx,
                       [ pc |-> "lastMove", kind |-> "reminder", req |-> req,
                         gameId |-> g.id, createdAt |-> g.createdAt,
                         toEmail |-> Get(toMoveUser(g).email) ])
                /\ UNCHANGED last
        /\ UNCHANGED <<now, allowedClientIds, oAuthCode, oAuthAccessToken, exchange,
                       guardVars, envVars, user, game, move, chatMessage, outbox>>

\* lastMove?.createdAt ?? game.createdAt: the time of the latest move of the
\* game, or that of the game's creation as the request read it.
Latest(times) == CHOOSE t \in times : \A u \in times : u <= t
referenceTime(t) ==
    IF MovesOf(t.gameId) = {} THEN t.createdAt
    ELSE Latest({move[i].createdAt : i \in MovesOf(t.gameId)})

\* minutesSinceLastMove < minMinutesSinceLastMove, in milliseconds.
BelowThreshold(t) ==
    now - referenceTime(t) < t.req.payload.minMinutesSinceLastMove * MsPerMinute

\* The rest of POST: the last move is read, and the mailer is called unless
\* the threshold is not met or dryRun is set.
reminder_send(p) ==
    LET t == tx[p]
        resp == IF BelowThreshold(t) THEN ReminderSkipped("Threshold not met")
                ELSE IF t.req.payload.dryRun THEN ReminderSkipped("dryRun")
                ELSE ReminderMailed
    IN  /\ last = NoInvocation
        /\ t.kind = "reminder"
        /\ t.pc = "lastMove"
        /\ tx' = [tx EXCEPT ![p] = [@ EXCEPT !.pc = "done"]]
        /\ outbox' = IF resp = ReminderMailed
                     THEN Append(outbox, [kind |-> "turn-reminder", to |-> t.toEmail, gameId |-> t.gameId])
                     ELSE outbox
        /\ last' = [endpoint |-> "reminder", req |-> t.req, at |-> now, resp |-> resp]
        /\ UNCHANGED <<now, events, allowedClientIds, oAuthCode, oAuthAccessToken, exchange,
                       guardVars, envVars, user, game, move, chatMessage>>

\* ====================================================================== inputs
\* The token requests that were answered, are suspended, were answered 200.
DoneSlots == {p \in Slots : exchange[p].pc = "done"}
InFlight == {p \in Slots : exchange[p].pc \in {"updateMany", "create"}}
Succeeded == {p \in DoneSlots : exchange[p].resp.status = 200}

D1 == sha256(V1)

AuthorizeRequest(session, responseType, clientId, redirectUri, state, challenge, method) ==
    [ session |-> session, responseType |-> responseType, clientId |-> clientId,
      redirectUri |-> redirectUri, state |-> state, scope |-> None, resource |-> None,
      codeChallenge |-> challenge, codeChallengeMethod |-> method ]

\* Two clients: u1 at client c1 with redirect R1, u2 at client c2 with R2.
Profile(u) ==
    IF u = "u1" THEN [user |-> "u1", clientId |-> "c1", redirectUri |-> R1]
    ELSE [user |-> "u2", clientId |-> "c2", redirectUri |-> R2]

\* The PKCE parameters a client sends: a challenge and a method (or none).
PkceParameters ==
    { <<D1, Some("S256")>>, <<V1, Some("plain")>>, <<V1, None>>, <<D1, Some("plain")>> }

\* Requests that pass every check of /authorize.
WellFormedAuthorizeRequests ==
    { AuthorizeRequest(Some("u1"), Some("code"), Some("c1"), Some(R1), Some("xyz"),
                       Some(pk[1]), pk[2]) : pk \in PkceParameters }
    \cup
    { AuthorizeRequest(Some("u2"), Some("code"), Some("c2"), Some(R2), st, Some(D1), Some("S256")) :
        st \in {None, Some("")} }

\* Requests that fail one check.
FaultyAuthorizeRequests ==
    { AuthorizeRequest(None, Some("code"), Some("c1"), Some(R1), Some("xyz"), Some(D1), Some("S256")),
      AuthorizeRequest(Some("u1"), Some("token"), Some("c1"), Some(R1), Some("xyz"), Some(D1), Some("S256")),
      AuthorizeRequest(Some("u1"), Some("code"), None, Some(R1), Some("xyz"), Some(D1), Some("S256")),
      AuthorizeRequest(Some("u1"), Some("code"), Some("c1"), None, Some("xyz"), Some(D1), Some("S256")),
      AuthorizeRequest(Some("u1"), Some("code"), Some("c1"), Some(RFragment), None, Some(D1), Some("S256")),
      AuthorizeRequest(Some("u1"), Some("code"), Some("c1"), Some(R1), Some("xyz"), None, Some("S256")),
      AuthorizeRequest(Some("u1"), Some("code"), Some("c1"), Some(R1), None, Some(VShort), Some("S256")),
      AuthorizeRequest(Some("u1"), Some("code"), Some("c1"), Some(R1), Some("xyz"), Some(D1), Some("S512")) }

AuthorizeRequests == WellFormedAuthorizeRequests \cup FaultyAuthorizeRequests

TokenBody(grantType, code, clientId, redirectUri, codeVerifier) ==
    [ grantType |-> grantType, code |-> code, clientId |-> clientId,
      redirectUri |-> redirectUri, codeVerifier |-> codeVerifier, origin |-> "" ]

Verifiers == {V1, V2, D1}

\* Every token request over the codes minted so far, a code never minted and a
\* truncated code, with the client ids, redirect URIs and verifiers of the
\* model, each also absent; and the requests the route refuses by their form.
AllTokenBodies ==
    { TokenBody("authorization_code", code, c, r, v) :
        code \in { NewCodeValue(n) : n \in 1..(Len(oAuthCode) + 1) }
                   \cup { Truncate(NewCodeValue(1), Base64UrlLen(CodeBytes) - 1) },
        c \in {""} \cup ClientIds,
        r \in {None, Some(R1), Some(R2)},
        v \in Verifiers }
    \cup
    { TokenBody("refresh_token", NewCodeValue(1), "c1", Some(R1), V1),
      TokenBody("authorization_code", EmptyStr, "c1", Some(R1), V1),
      TokenBody("authorization_code", NewCodeValue(1), "c1", Some(R1), EmptyStr),
      TokenBody("authorization_code", NewCodeValue(1), "c1", Some(R1), VShort) }

\* The token requests the claims quantify over are evaluated in the states
\* between two handler steps.
Quiet == last = NoInvocation

\* The requests the clients of the model send for the n-th code: the right
\* one, and the ones that leave out or get wrong the client and redirect URI,
\* or the verifier.
TokenBodiesFor(n) ==
    LET row == oAuthCode[n]
        code == NewCodeValue(n)
        other == IF row.clientId = "c1" THEN Profile("u2") ELSE Profile("u1")
        right == {v \in Verifiers : verifyPkce(row.codeChallenge, row.codeChallengeMethod, v)}
        wrong == IF V1 \in right THEN V2 ELSE V1
    IN  { TokenBody("authorization_code", code, row.clientId, Some(row.redirectUri), v) :
            v \in right \cup {wrong} }
        \cup
        { TokenBody("authorization_code", code, "", None, v) : v \in right }
        \cup
        { TokenBody("authorization_code", code, other.clientId, Some(row.redirectUri), v) : v \in right }
        \cup
        { TokenBody("authorization_code", code, row.clientId, Some(other.redirectUri), v) : v \in right }

TokenBodies ==
    UNION { TokenBodiesFor(n) : n \in 1..Len(oAuthCode) }
    \cup { TokenBody("refresh_token", NewCodeValue(1), "c1", Some(R1), V1),
           TokenBody("authorization_code", NewCodeValue(Len(oAuthCode) + 1), "c1", Some(R1), V1),
           TokenBody("authorization_code", NewCodeValue(1), "c1", Some(R1), VShort) }

\* A tools/call request: the session user (or None), the Authorization header
\* (or None), params.name (or None) and params.arguments.
ToolsCallRequest(session, authorization, name, args) ==
    [ session |-> session, authorization |-> authorization, name |-> name, args |-> args,
      updateFails |-> FALSE ]

\* One character more than s, and the tokens the server has handed out.
Extend(s) == [s EXCEPT !.len = s.len + 1]
IssuedTokens == { exchange[p].token : p \in Succeeded }

\* What a caller may present as a token: an issued token, a truncation or an
\* extension of one, its digest, a token drawn by a refused exchange, a token
\* never drawn, an authorization code, nothing.
PresentedTokens ==
    IssuedTokens
    \cup { Truncate(t, t.len - 1) : t \in IssuedTokens }
    \cup { Truncate(t, 1) : t \in IssuedTokens }
    \cup { Extend(t) : t \in IssuedTokens }
    \cup { sha256(t) : t \in IssuedTokens }
    \cup { exchange[p].token : p \in DoneSlots }
    \cup { randomToken(TokenBytes, 0), NewCodeValue(1), EmptyStr }

Schemes == {"Bearer", "bearer", "BEARER", "Basic"}

AuthorizationHeaders ==
    {None} \cup { Some(Header(scheme, t)) : scheme \in Schemes, t \in PresentedTokens }

\* params.arguments: whether they satisfy the tool's schema, and their scope
\* field (read by list_games only).
ToolArguments == [valid : BOOLEAN, scope : {"my", "all"}]

Names == {None, Some("")} \cup { Some(n) : n \in ToolNames \cup {"castle"} }

\* The calls the clients of the model make: with and without a session, with
\* an issued token, a truncated one, another scheme or no header.
ToolsCallRequests ==
    { ToolsCallRequest(session, authorization, name, args) :
        session \in {None, Some("u2")},
        authorization \in {None}
            \cup { Some(Header("Bearer", t)) : t \in IssuedTokens }
            \cup { Some(Header("Bearer", Truncate(t, t.len - 1))) : t \in IssuedTokens }
            \cup { Some(Header("Basic", t)) : t \in IssuedTokens },
        name \in {None, Some("new_game"), Some("snapshot"), Some("list_games"), Some("castle")},
        args \in { [valid |-> TRUE, scope |-> "my"], [valid |-> FALSE, scope |-> "all"] } }

\* The round trip: a signed-in user authorizes a client, with and without state.
RoundTripAuthorizeRequests ==
    { AuthorizeRequest(Some("u1"), Some("code"), Some("c1"), Some(R1), Some("xyz"),
                       Some(D1), Some("S256")),
      AuthorizeRequest(Some("u2"), Some("code"), Some("c2"), Some(R2), None,
                       Some(V1), None) }

\* The client then sends the code and its verifier, with or without its
\* client_id and redirect_uri.
RoundTripTokenBodies ==
    UNION { { TokenBody("authorization_code", NewCodeValue(n), oAuthCode[n].clientId,
                        Some(oAuthCode[n].redirectUri), V1),
              TokenBody("authorization_code", NewCodeValue(n), "", None, V1) } :
            n \in 1..Len(oAuthCode) }

\* The Origin headers the callers send: none, two known agents, a stranger
\* and a stranger whose name starts like an agent's.
Origins ==
    { "", "https://chatgpt.com", "https://chat.openai.com/", "https://evil.example",
      "https://chatgpt.com.evil.example" }

FromOrigin(body, origin) == [body EXCEPT !.origin = origin]

\* A POST to /oauth/token: whether ensureDbReady returns, whether
\* getTokenRequestBody returns, and the parsed fields with the Origin header.
TokenRequest(dbReady, parses, body) == [dbReady |-> dbReady, parses |-> parses, body |-> body]

\* A verifier with a character outside the unreserved set.
VBad == BadText(3, PkceMinLen)

\* Token requests that fail several checks of the route at once.
ManyFaultTokenBodies ==
    { TokenBody("refresh_token", EmptyStr, "c2", None, EmptyStr),
      TokenBody("refresh_token", NewCodeValue(1), "c2", Some(R1), VShort),
      TokenBody("authorization_code", EmptyStr, "c2", Some(R1), VBad),
      TokenBody("authorization_code", NewCodeValue(1), "c2", Some(R1), EmptyStr),
      TokenBody("authorization_code", NewCodeValue(Len(oAuthCode) + 1), "c2", Some(R2), VBad),
      TokenBody("authorization_code", NewCodeValue(Len(oAuthCode) + 1), "c2", Some(R2), V1),
      TokenBody("authorization_code", NewCodeValue(Len(oAuthCode) + 1), "", None, V2) }

\* The parsed fields of every token request the claims quantify over: each
\* field right, wrong or absent, independently.
AllFaultTokenBodies ==
    { TokenBody(g, code, c, r, v) :
        g \in {"authorization_code", "refresh_token", ""},
        code \in {EmptyStr} \cup { NewCodeValue(n) : n \in 1..(Len(oAuthCode) + 1) },
        c \in {""} \cup ClientIds,
        r \in {None, Some(R1)},
        v \in {EmptyStr, VShort, VBad, V1, V2} }

\* The requests of the token endpoint's clients: the round trip from an agent's
\* page and from elsewhere, the faulty ones, and requests that arrive while
\* the database is down or with a body that cannot be parsed.
TokenRequests ==
    { TokenRequest(TRUE, TRUE, FromOrigin(b, o)) :
        b \in RoundTripTokenBodies, o \in {"https://chatgpt.com", "https://evil.example"} }
    \cup { TokenRequest(TRUE, TRUE, b) : b \in ManyFaultTokenBodies }
    \cup { TokenRequest(d, ~d, FromOrigin(TokenBody("authorization_code", NewCodeValue(1), "c1", Some(R1), V1), o)) :
            d \in BOOLEAN, o \in Origins }

\* A POST to /api/mcp: the session user, the Authorization header, whether
\* ensureDbReady returns, and the body.
McpRequest(session, authorization, dbReady, body) ==
    [ session |-> session, authorization |-> authorization, dbReady |-> dbReady, body |-> body,
      updateFails |-> FALSE ]

\* The same request when the lastUsedAt update is rejected by the database.
UpdateFailing(req) == [req EXCEPT !.updateFails = TRUE]

\* tools/call requests with every session and header, a tool of each kind
\* and arguments that are accepted or not.
StampBodies ==
    { ObjectBody(Some(7), Some("tools/call"), Some(Params(StringName(name), Some(args)))) :
        name \in {"new_game", "snapshot", "list_games", "castle"},
        args \in ToolArguments }

AllStampRequests ==
    { McpRequest(session, authorization, TRUE, body) :
        session \in {None} \cup { Some(u) : u \in Users },
        authorization \in {None}
            \cup { Some(Header("Bearer", t)) : t \in IssuedTokens }
            \cup { Some(Header("Bearer", Truncate(t, t.len - 1))) : t \in IssuedTokens },
        body \in StampBodies }

\* tools/call for every tool and a name that is none, with every session and
\* header.
AllToolRequests ==
    { McpRequest(session, authorization, TRUE,
                 ObjectBody(Some(7), Some("tools/call"), Some(Params(StringName(name), Some(args))))) :
        session \in {None} \cup { Some(u) : u \in Users },
        authorization \in {None}
            \cup { Some(Header("Bearer", t)) : t \in IssuedTokens }
            \cup { Some(Header("Bearer", Truncate(t, t.len - 1))) : t \in IssuedTokens },
        name \in ToolNames \cup {"castle"},
        args \in ToolArguments }

\* The calls of the model's clients, each with the update of lastUsedAt
\* succeeding and failing, and the requests that are not tools/call.
StampRequests ==
    { McpRequest(None, None, dbReady, body) :
        dbReady \in BOOLEAN, body \in {MalformedBody, ObjectBody(Some(7), Some("ping"), None)} }
    \cup
    UNION { {req, UpdateFailing(req)} :
        req \in { McpRequest(session, authorization, TRUE,
                     ObjectBody(Some(7), Some("tools/call"),
                                Some(Params(StringName(name), Some([valid |-> TRUE, scope |-> "my"]))))) :
                    session \in {None, Some("u2")},
                    authorization \in {None} \cup { Some(Header("Bearer", t)) : t \in IssuedTokens },
                    name \in {"new_game", "snapshot", "list_games"} } }

NameParams ==
    { MissingName, NumberName, StringName(""), StringName("castle"), StringName("New_Game"),
      StringName("new_game ") }
    \cup { StringName(n) : n \in ToolNames }

\* The bodies that are not tools/call: no JSON, JSON that is no object, and
\* objects with each method, another method and none.
PlainBodies ==
    { MalformedBody, NullBody, ScalarBody }
    \cup { ObjectBody(id, method, None) :
             id \in {None, Some(7)},
             method \in {None, Some("nonexistent/method"), Some("")}
                        \cup { Some(m) : m \in Methods \ {"tools/call"} } }

ToolsCallBodies ==
    { ObjectBody(Some(7), Some("tools/call"), params) :
        params \in {None} \cup
            { Some(Params(name, args)) :
                name \in NameParams,
                args \in {None} \cup { Some(a) : a \in ToolArguments } } }

\* The requests the clients of the model send: every plain body, anonymous,
\* with the store up or down; and tools/call with and without a session and
\* an issued token.
McpRequests ==
    { McpRequest(None, None, dbReady, body) : dbReady \in BOOLEAN, body \in PlainBodies }
    \cup
    { McpRequest(session, authorization, TRUE,
                 ObjectBody(Some(7), Some("tools/call"), params)) :
        session \in {None, Some("u2")},
        authorization \in {None} \cup { Some(Header("Bearer", t)) : t \in IssuedTokens },
        params \in {None} \cup
            { Some(Params(name, Some([valid |-> TRUE, scope |-> "my"]))) :
                name \in { MissingName, NumberName, StringName(""), StringName("castle"),
                           StringName("new_game"), StringName("snapshot"),
                           StringName("list_games") } } }

\* Every request over the sessions, the headers callers may present, the
\* bodies above and every tools/call body.
AllMcpRequests ==
    { McpRequest(session, authorization, dbReady, body) :
        session \in {None} \cup { Some(u) : u \in Users },
        authorization \in {None}
            \cup { Some(Header("Bearer", t)) : t \in IssuedTokens }
            \cup { Some(Header("Bearer", Truncate(t, t.len - 1))) : t \in IssuedTokens },
        dbReady \in BOOLEAN,
        body \in PlainBodies \cup ToolsCallBodies }

\* Redirect URIs that do not validate: another scheme, a relative reference.
RFtp == Uri("client.example/cb", "ftp:", "")
RRelative == NotAUrl("/cb")

\* Requests that fail several checks at once, and one whose method has blanks
\* around it.
ManyFaultAuthorizeRequests ==
    { AuthorizeRequest(None, Some("token"), Some("c2"), Some(R2), Some("xyz"), None, Some("S512")),
      AuthorizeRequest(None, Some("code"), Some("c2"), Some(R2), Some("xyz"), Some(D1), Some("S256")),
      AuthorizeRequest(Some("u2"), Some("code"), Some("c2"), Some(R2), Some("xyz"), Some(VShort), Some("S512")),
      AuthorizeRequest(Some("u2"), Some("code"), Some("c2"), Some(R2), Some(""), Some(D1), Some("S512")),
      AuthorizeRequest(Some("u2"), Some("token"), Some("c2"), Some(RFtp), Some("xyz"), Some(D1), Some("S256")),
      AuthorizeRequest(None, Some("code"), Some("c1"), Some(RRelative), None, Some(D1), Some("S256")),
      AuthorizeRequest(Some("u1"), Some("code"), Some(""), Some(R1), None, Some(D1), Some("S256")),
      AuthorizeRequest(Some("u1"), Some("code"), Some("c1"), Some(R1), None, Some(D1), Some(" S256 ")) }

\* Every request over the parameters of the model, each also absent, empty
\* or malformed.
AllAuthorizeRequests ==
    { AuthorizeRequest(session, responseType, clientId, redirectUri, state, challenge, method) :
        session \in {None, Some("u1")},
        responseType \in {None, Some("code"), Some("token")},
        clientId \in {None, Some(""), Some("c1"), Some("c2")},
        redirectUri \in {None, Some(R1), Some(RFragment), Some(RFtp), Some(RRelative)},
        state \in {None, Some(""), Some("xyz")},
        challenge \in {None, Some(D1), Some(VShort), Some(BadText(3, PkceMinLen))},
        method \in {None, Some("S256"), Some(" S256 "), Some("S512")} }

\* The arguments of the game tools: valid tells whether they satisfy the
\* tool's schema.
NewGameArgs(valid, opponentEmail, playAs) ==
    [valid |-> valid, opponentEmail |-> opponentEmail, playAs |-> playAs]
MoveArgs(valid, gameId, legal, ends) ==
    [valid |-> valid, gameId |-> gameId, legal |-> legal, ends |-> ends]
ChatArgs(valid, gameId, body) == [valid |-> valid, gameId |-> gameId, body |-> body]
ReadArgs(valid, gameId, scope) == [valid |-> valid, gameId |-> gameId, scope |-> scope]

\* The callers of the game tools: nobody, and the three users.
GameCallers == {None, Some("u1"), Some("u2"), Some("u3")}
GameIds == {1, 2}

NewGameRequests ==
    {ToolRequest("new_game", Some("u1"), NewGameArgs(TRUE, "C@x", playAs)) :
        playAs \in {"white", "black"}}
    \cup {ToolRequest("new_game", Some("u1"), NewGameArgs(TRUE, "A@X", "white"))}
    \cup {ToolRequest("new_game", Some("u1"), NewGameArgs(FALSE, "bad", "white"))}
    \cup {ToolRequest("new_game", None, NewGameArgs(valid, "C@x", "white")) : valid \in BOOLEAN}
MoveRequests ==
    {ToolRequest("move_piece", userId, MoveArgs(TRUE, 1, TRUE, FALSE)) : userId \in GameCallers}
    \cup {ToolRequest("move_piece", Some("u1"), MoveArgs(TRUE, 1, TRUE, TRUE)),
          ToolRequest("move_piece", Some("u1"), MoveArgs(TRUE, 1, FALSE, FALSE)),
          ToolRequest("move_piece", Some("u1"), MoveArgs(FALSE, 1, TRUE, FALSE)),
          ToolRequest("move_piece", Some("u1"), MoveArgs(TRUE, 2, TRUE, FALSE)),
          ToolRequest("move_piece", None, MoveArgs(FALSE, 1, TRUE, FALSE))}
ChatRequests ==
    {ToolRequest("post_chat_message", userId, ChatArgs(TRUE, 1, "hi")) : userId \in GameCallers}
    \cup {ToolRequest("post_chat_message", userId, ChatArgs(FALSE, 1, "hi")) :
            userId \in {None, Some("u3")}}
ReadRequests ==
    {ToolRequest("status", None, ReadArgs(valid, 1, "my")) : valid \in BOOLEAN}
    \cup {ToolRequest("list_games", None, ReadArgs(TRUE, 1, "my"))}

\* Every call of every tool the claims speak about.
AllNewGameRequests ==
    {ToolRequest("new_game", userId, NewGameArgs(valid, email, playAs)) :
        userId \in GameCallers, valid \in BOOLEAN, email \in {"C@x", "A@X", "d@x"},
        playAs \in {"white", "black"}}
AllMoveRequests ==
    {ToolRequest("move_piece", userId, MoveArgs(valid, gameId, legal, ends)) :
        userId \in GameCallers, valid \in BOOLEAN, gameId \in GameIds \cup {3},
        legal \in BOOLEAN, ends \in BOOLEAN}
AllChatRequests ==
    {ToolRequest("post_chat_message", userId, ChatArgs(valid, gameId, "hi")) :
        userId \in GameCallers, valid \in BOOLEAN, gameId \in GameIds \cup {3}}
AllReadRequests ==
    {ToolRequest(name, userId, ReadArgs(valid, gameId, scope)) :
        name \in ReadingTools, userId \in GameCallers, valid \in BOOLEAN,
        gameId \in GameIds, scope \in {"my", "all"}}

\* The requests of the reminder endpoint: the headers, whether the body is
\* JSON, and the payload after payloadSchema (valid tells whether it passes).
ReminderRequest(xReminderKey, authorization, parses, valid, gameId, minMinutes, dryRun) ==
    [ xReminderKey |-> xReminderKey, authorization |-> authorization, parses |-> parses,
      payload |-> [ valid |-> valid, gameId |-> gameId,
                    minMinutesSinceLastMove |-> minMinutes, dryRun |-> dryRun ] ]

KeyHeaders == {None, Some(""), Some("k"), Some("wrong")}
KeyAuthorizationHeaders ==
    {None, Some(Header("Bearer", "k")), Some(Header("bearer", " k ")),
     Some(Header("Bearer", "wrong")), Some(Header("Basic", "k")), Some(Header("Bearer", ""))}

ReminderRequests ==
    {ReminderRequest(Some("k"), None, TRUE, TRUE, 1, 1, dryRun) : dryRun \in BOOLEAN}
    \cup {ReminderRequest(Some("wrong"), Some(Header("Bearer", "k")), TRUE, TRUE, 1, 1, FALSE),
          ReminderRequest(None, Some(Header("bearer", " k ")), FALSE, TRUE, 1, 1, FALSE)}

AllReminderRequests ==
    {ReminderRequest(k, a, parses, valid, 1, 1, FALSE) :
        k \in KeyHeaders, a \in KeyAuthorizationHeaders, parses \in BOOLEAN, valid \in BOOLEAN}

\* The games the reminder is asked about: u2, who has no e-mail address,
\* plays white or black against u3, who has one.
ReminderGameRequests ==
    {ToolRequest("new_game", Some("u2"), NewGameArgs(TRUE, "C@x", playAs)) :
        playAs \in {"white", "black"}}
ReminderMoveRequests ==
    {ToolRequest("move_piece", Some("u2"), MoveArgs(TRUE, 1, TRUE, ends)) : ends \in BOOLEAN}
    \cup {ToolRequest("move_piece", Some("u3"), MoveArgs(TRUE, 1, TRUE, FALSE))}

\* The clock advances to the last millisecond before a minute is over, or by
\* a minute.
ReminderSteps == {MsPerMinute - 1, MsPerMinute}

\* What executors return: objects with and without data, mimeType and dataUrl,
\* and values that are no objects.
DataFields == {Absent, Num("1"), Str(""), Str("  "), Str(" QUJD "), Str("QUJD"), Str("@@")}
MimeFields == {Absent, Num("1"), Str("image/png"), Str("image/svg+xml"), Str("text/plain"),
               Str("IMAGE/PNG")}
DataUrlFields ==
    { Absent,
      Num(NoDataUrl),
      Str(NoDataUrl),
      Str(DataUrl("", "image/png", ";base64,", "QUJD")),
      Str(DataUrl("", "image/svg+xml", ";base64,", "QUJD_-=")),
      Str(DataUrl(" ", "image/png", ";base64,", "QUJD")),
      Str(DataUrl("", "text/plain", ";base64,", "QUJD")),
      Str(DataUrl("", "image/", ";base64,", "QUJD")),
      Str(DataUrl("", "image/png", ";utf8,", "QUJD")),
      Str(DataUrl("", "image/png", ";base64,", "")),
      Str(DataUrl("", "image/png", ";base64,", "QU JD")) }

ResultObjects ==
    {[kind |-> "object", data |-> d, mimeType |-> m, dataUrl |-> u] :
        d \in DataFields, m \in MimeFields, u \in DataUrlFields}
ResultValues ==
    ResultObjects \cup
    {[kind |-> k, data |-> Absent, mimeType |-> Absent, dataUrl |-> Absent] :
        k \in {"null", "string", "number"}}
ContentTools == {"snapshot", "status"}

\* The values of MCP_PUBLIC_URL and NEXTAUTH_URL: unset, blank, a host without
\* a scheme, URLs with trailing slashes and a path, and text that is no URL.
ConfiguredValues ==
    { None,
      Some(Configured("", "", "", "", TRUE)),
      Some(Configured(" ", "", "", "", TRUE)),
      Some(Configured(" ", "", "chess.example", "/", TRUE)),
      Some(Configured("", "HTTPS://", "chess.example", "/base//", TRUE)),
      Some(Configured("", "http://", "auth.example", "", TRUE)),
      Some(Configured("", "https://", "no host", "", FALSE)) }
Environments == [MCP_PUBLIC_URL : ConfiguredValues, NEXTAUTH_URL : ConfiguredValues]

\* Requests to the discovery routes: the origin of req.url and the headers a
\* proxy sets or leaves out.
DiscoveryRequests ==
    [ origin : {"http://localhost:3000"},
      forwardedProto : {None, Some(""), Some("https")},
      forwardedHost : {None, Some(""), Some("tunnel.example")},
      host : {None, Some("localhost:3000")} ]

\* ================================================================ specification
\* The code life cycle: /authorize, concurrent /token requests, the clock.
Next ==
    \/ \E d \in CodeSteps : Tick(d)
    \/ \E req \in AuthorizeRequests : Authorize(req)
    \/ \E body \in TokenBodies : TokenPost(body)
    \/ \E p \in Slots : ExchangeUpdate(p)
    \/ \E p \in Slots : ExchangeCreate(p)
    \/ Deliver

Spec == Init /\ [][Next]_vars

\* The token life cycle: the round trip, tools/call with what callers may
\* present, the clock up to the expiry of a token.
NextBearer ==
    \/ \E d \in TokenSteps : Tick(d)
    \/ \E req \in RoundTripAuthorizeRequests : Authorize(req)
    \/ \E body \in RoundTripTokenBodies : TokenPost(body)
    \/ \E p \in Slots : ExchangeUpdate(p)
    \/ \E p \in Slots : ExchangeCreate(p)
    \/ \E req \in ToolsCallRequests : ToolsCall(req)
    \/ Deliver

SpecBearer == Init /\ [][NextBearer]_vars

\* The MCP endpoint: the round trip that issues tokens, and POST /api/mcp with
\* every kind of body.
NextMcp ==
    \/ \E req \in RoundTripAuthorizeRequests : Authorize(req)
    \/ \E body \in RoundTripTokenBodies : TokenPost(body)
    \/ \E p \in Slots : ExchangeUpdate(p)
    \/ \E p \in Slots : ExchangeCreate(p)
    \/ \E req \in McpRequests : McpPost(req)
    \/ Deliver

SpecMcp == Init /\ [][NextMcp]_vars

\* Tool calls whose lastUsedAt update may fail.
NextStamp ==
    \/ \E req \in RoundTripAuthorizeRequests : Authorize(req)
    \/ \E body \in RoundTripTokenBodies : TokenPost(body)
    \/ \E p \in Slots : ExchangeUpdate(p)
    \/ \E p \in Slots : ExchangeCreate(p)
    \/ \E req \in StampRequests : McpPost(req)
    \/ Deliver

SpecStamp == Init /\ [][NextStamp]_vars

\* The authorization endpoint with and without a client allow-list
\* (MCP_OAUTH_ALLOWED_CLIENT_IDS is empty, or names c1), and the token endpoint.
InitAuthorize ==
    /\ InitApp
    /\ now = 0
    /\ events = 0
    /\ allowedClientIds \in {{}, {"c1"}}
    /\ oAuthCode = <<>>
    /\ oAuthAccessToken = <<>>
    /\ exchange = [p \in Slots |-> IdleSlot]
    /\ last = NoInvocation

NextAuthorize ==
    \/ \E req \in AuthorizeRequests \cup ManyFaultAuthorizeRequests : Authorize(req)
    \/ \E body \in TokenBodies : TokenPost(body)
    \/ \E p \in Slots : ExchangeUpdate(p)
    \/ \E p \in Slots : ExchangeCreate(p)
    \/ Deliver

SpecAuthorize == InitAuthorize /\ [][NextAuthorize]_vars

\* The token endpoint from the first line of its handlers, with and without a
\* client allow-list.
NextToken ==
    \/ \E req \in RoundTripAuthorizeRequests : Authorize(req)
    \/ \E req \in TokenRequests : TokenRoute(req)
    \/ \E origin \in Origins : TokenOptions(origin)
    \/ \E p \in Slots : ExchangeUpdate(p)
    \/ \E p \in Slots : ExchangeCreate(p)
    \/ Deliver

SpecToken == InitAuthorize /\ [][NextToken]_vars

\* The exchange when the insert of the token row may fail.
NextExchange ==
    \/ \E d \in CodeSteps : Tick(d)
    \/ \E req \in RoundTripAuthorizeRequests : Authorize(req)
    \/ \E body \in RoundTripTokenBodies : TokenPost(body)
    \/ \E p \in Slots : ExchangeUpdate(p)
    \/ \E p \in Slots : ExchangeCreate(p)
    \/ \E p \in Slots : ExchangeCreateFails(p)
    \/ Deliver

SpecExchange == Init /\ [][NextExchange]_vars

\* Requests that call ensureDbReady while initializations succeed and fail.
NextDb ==
    \/ \E c \in Callers : ensureDbReady(c)
    \/ \E k \in 1..Len(promises) : InnerResolves(k)
    \/ \E k \in 1..Len(promises) : InnerRejects(k)
    \/ \E k \in 1..Len(promises) : CatchHandler(k)
    \/ \E c \in Callers : Resume(c)
    \/ \E c \in Callers : NextRequest(c)

SpecDb == Init /\ [][NextDb]_vars

\* The game tools called by the players and by others, with move_piece
\* transactions that overlap.
NextGame ==
    \/ \E req \in NewGameRequests : new_game(req)
    \/ \E req \in MoveRequests : move_piece(req)
    \/ \E p \in 1..Len(tx) : move_piece_count(p)
    \/ \E p \in 1..Len(tx) : move_piece_write(p)
    \/ \E req \in ChatRequests : post_chat_message(req)
    \/ \E req \in ReadRequests : read_tool(req)
    \/ Deliver

SpecGame == Init /\ [][NextGame]_vars

\* The reminder endpoint with and without REMINDER_API_KEY, asked about games
\* that are being played while time passes.
InitReminder ==
    /\ InitProcess
    /\ reminderApiKey \in {None, Some("k")}
    /\ now = 0
    /\ events = 0
    /\ allowedClientIds = {}
    /\ oAuthCode = <<>>
    /\ oAuthAccessToken = <<>>
    /\ exchange = [p \in Slots |-> IdleSlot]
    /\ last = NoInvocation

NextReminder ==
    \/ \E req \in ReminderGameRequests : new_game(req)
    \/ \E req \in ReminderMoveRequests : move_piece(req)
    \/ \E p \in 1..Len(tx) : move_piece_count(p)
    \/ \E p \in 1..Len(tx) : move_piece_write(p)
    \/ \E d \in ReminderSteps : Tick(d)
    \/ \E req \in ReminderRequests : reminder(req)
    \/ \E p \in 1..Len(tx) : reminder_send(p)
    \/ Deliver

SpecReminder == InitReminder /\ [][NextReminder]_vars

\* tools/call answering what an executor returned.
NextContent ==
    \/ \E name \in ContentTools, result \in ResultValues : ToolsCallResult(name, result)
    \/ Deliver

SpecContent == Init /\ [][NextContent]_vars

\* The two discovery documents requested under every environment.
NextDiscovery ==
    \/ \E env \in Environments, req \in DiscoveryRequests : ProtectedResource(env, req)
    \/ \E env \in Environments, req \in DiscoveryRequests : AuthorizationServer(env, req)
    \/ Deliver

SpecDiscovery == Init /\ [][NextDiscovery]_vars

\* ====================================================================== claims

\* The code a request that reached updateMany is for.
CodeOf(p) == IF exchange[p].pc = "done" THEN exchange[p].codeId ELSE exchange[p].authCode.id
RequestsFor(id) == {p \in DoneSlots \cup InFlight : CodeOf(p) = id}

InvalidGrant == OAuthError("invalid_grant", 400)

\* C1: of the exchange calls that found one code valid (unused, unexpired,
\* right client, redirect URI and verifier) and so ran concurrently through the
\* conditional update, once all have answered exactly one has answered 200 and
\* every other one invalid_grant.
C1_ExactlyOneExchangeSucceeds ==
    \A id \in 1..Len(oAuthCode) :
        (RequestsFor(id) # {} /\ RequestsFor(id) \subseteq DoneSlots)
            => /\ Cardinality(RequestsFor(id) \cap Succeeded) = 1
               /\ \A p \in RequestsFor(id) \ Succeeded : exchange[p].resp = InvalidGrant

\* Two calls for one code ran concurrently and both have answered.
C1_Witness ==
    \E p, q \in DoneSlots :
        /\ p # q
        /\ CodeOf(p) = CodeOf(q)
        /\ exchange[p].resp.status = 200
        /\ exchange[q].resp = InvalidGrant

\* C2: no two access tokens come from one code; every token row is the token
\* of a request answered 200, so a request answered invalid_grant (at once or
\* after losing the conditional update) has left no token.
C2_AtMostOneTokenPerCode ==
    /\ \A i, j \in 1..Len(oAuthAccessToken) :
          oAuthAccessToken[i].codeId = oAuthAccessToken[j].codeId => i = j
    /\ \A i \in 1..Len(oAuthAccessToken) :
          \E p \in Succeeded : oAuthAccessToken[i].tokenHash = sha256(exchange[p].token)
    /\ \A p \in DoneSlots \ Succeeded :
          \A i \in 1..Len(oAuthAccessToken) :
              oAuthAccessToken[i].tokenHash # sha256(exchange[p].token)
    /\ Len(oAuthAccessToken) = Cardinality(Succeeded)

\* A code was exchanged, a concurrent exchange lost, and a later one was refused.
C2_Witness ==
    /\ C1_Witness
    /\ last.endpoint = "token"
    /\ last.resp = InvalidGrant
    /\ \E p \in Succeeded : sha256(last.req.code) = oAuthCode[CodeOf(p)].codeHash

\* The row a token request names, and what the request gets right about it.
RowOf(body) == FindCode(sha256(body.code))
ReachesExchange(body) == TokenRejection(body) = None /\ IsSome(RowOf(body))
BindingRight(body) ==
    /\ body.clientId = Get(RowOf(body)).clientId
    /\ body.redirectUri = Some(Get(RowOf(body)).redirectUri)
PkceHolds(row, verifier) ==
    \/ row.codeChallengeMethod = "S256" /\ sha256(verifier) = row.codeChallenge
    \/ row.codeChallengeMethod = "plain" /\ verifier = row.codeChallenge
AnsweredToken == last.endpoint = "token"

\* C3: a code's usedAt, once set, is never set again nor cleared; and no
\* exchange that reads the code when it is already used or past its expiry
\* succeeds: it is answered invalid_grant (400) at once.
C3_UsedAtSetOnce ==
    \A i \in 1..Len(oAuthCode) :
        IsSome(oAuthCode[i].usedAt) => oAuthCode'[i].usedAt = oAuthCode[i].usedAt

C3_LateExchangeRefused ==
    /\ \A p \in Succeeded : ~exchange[p].late
    /\ Quiet =>
          \A body \in AllTokenBodies :
              (/\ ReachesExchange(body)
               /\ \/ IsSome(Get(RowOf(body)).usedAt)
                  \/ Get(RowOf(body)).expiresAt < now)
                  => TokenPostAnswer(body) = Some(InvalidGrant)
    /\ (/\ AnsweredToken
        /\ ReachesExchange(last.req)
        /\ \/ IsSome(Get(RowOf(last.req)).usedAt)
           \/ Get(RowOf(last.req)).expiresAt < last.at)
          => last.resp = InvalidGrant

C3_CodeInertAfterUseOrExpiry ==
    [][C3_UsedAtSetOnce]_vars /\ []C3_LateExchangeRefused

\* The token request that succeeded is sent again and answered invalid_grant.
C3_Witness ==
    /\ AnsweredToken
    /\ ReachesExchange(last.req)
    /\ BindingRight(last.req)
    /\ PkceHolds(Get(RowOf(last.req)), last.req.codeVerifier)
    /\ IsSome(Get(RowOf(last.req)).usedAt)
    /\ Get(RowOf(last.req)).expiresAt > last.at
    /\ \E p \in Succeeded : CodeOf(p) = Get(RowOf(last.req)).id
    /\ last.resp = InvalidGrant

\* C4: an exchange of a code whose expiresAt (creation + 5 minutes) is past is
\* answered invalid_grant whatever client_id, redirect_uri and verifier it
\* presents, and the step that answers it changes neither table.
C4_ExpiredRefused ==
    /\ Quiet =>
          \A body \in AllTokenBodies :
              (ReachesExchange(body) /\ Get(RowOf(body)).expiresAt < now)
                  => TokenPostAnswer(body) = Some(InvalidGrant)
    /\ (AnsweredToken /\ ReachesExchange(last.req) /\ Get(RowOf(last.req)).expiresAt < last.at)
          => last.resp = InvalidGrant

C4_AnswerWritesNothing ==
    (Quiet /\ last'.endpoint = "token")
        => UNCHANGED <<oAuthCode, oAuthAccessToken, exchange>>

C4_ExpiredCodeIsRefused ==
    []C4_ExpiredRefused /\ [][C4_AnswerWritesNothing]_vars

\* An unused code is presented after its expiry with everything else right.
C4_Witness ==
    /\ AnsweredToken
    /\ ReachesExchange(last.req)
    /\ BindingRight(last.req)
    /\ PkceHolds(Get(RowOf(last.req)), last.req.codeVerifier)
    /\ Get(RowOf(last.req)).usedAt = None
    /\ Get(RowOf(last.req)).expiresAt < last.at
    /\ Get(RowOf(last.req)).expiresAt = CODE_TTL_SECONDS * 1000
    /\ last.resp = InvalidGrant

\* C5: a token request with grant_type=authorization_code, an unused unexpired
\* code and its matching verifier, and neither client_id nor redirect_uri, is
\* answered 200 with a Bearer access token and expires_in 3600.
C5_ExchangeWithoutClientSucceeds ==
    (/\ AnsweredToken
     /\ last.req.grantType = "authorization_code"
     /\ last.req.clientId = ""
     /\ last.req.redirectUri = None
     /\ isValidPkceVerifier(last.req.codeVerifier)
     /\ IsSome(RowOf(last.req))
     /\ Get(RowOf(last.req)).usedAt = None
     /\ Get(RowOf(last.req)).expiresAt > last.at
     /\ PkceHolds(Get(RowOf(last.req)), last.req.codeVerifier))
        => /\ last.resp.status = 200
           /\ IsSome(last.resp.access_token)
           /\ last.resp.token_type = "Bearer"
           /\ last.resp.expires_in = 3600

\* C6: an exchange that presents a client_id or a redirect_uri other than the
\* one recorded on the code is answered invalid_grant, whatever the verifier.
PresentsOtherBinding(body) ==
    \/ body.clientId # "" /\ body.clientId # Get(RowOf(body)).clientId
    \/ IsSome(body.redirectUri) /\ body.redirectUri # Some(Get(RowOf(body)).redirectUri)

C6_OtherBindingRefused ==
    /\ Quiet =>
          \A body \in AllTokenBodies :
              (ReachesExchange(body) /\ PresentsOtherBinding(body))
                  => TokenPostAnswer(body) = Some(InvalidGrant)
    /\ (AnsweredToken /\ ReachesExchange(last.req) /\ PresentsOtherBinding(last.req))
          => last.resp = InvalidGrant

\* An unused, unexpired code is presented with the right verifier and redirect
\* URI by another client.
C6_Witness ==
    /\ AnsweredToken
    /\ ReachesExchange(last.req)
    /\ last.req.clientId \notin {"", Get(RowOf(last.req)).clientId}
    /\ last.req.redirectUri = Some(Get(RowOf(last.req)).redirectUri)
    /\ PkceHolds(Get(RowOf(last.req)), last.req.codeVerifier)
    /\ Get(RowOf(last.req)).usedAt = None
    /\ Get(RowOf(last.req)).expiresAt > last.at
    /\ last.resp = InvalidGrant

\* C7: every stored code has method S256 or plain, plain when /authorize got no
\* code_challenge_method; and an exchange of an unused, unexpired code by its
\* client passes PKCE verification iff, for S256, the base64url SHA-256 digest
\* of the verifier is the stored challenge and, for plain, the verifier is.
C7_PkceDecidesExchange ==
    /\ \A i \in 1..Len(oAuthCode) : oAuthCode[i].codeChallengeMethod \in {"S256", "plain"}
    /\ Quiet =>
          \A body \in AllTokenBodies :
              (/\ ReachesExchange(body)
               /\ BindingRight(body)
               /\ Get(RowOf(body)).usedAt = None
               /\ Get(RowOf(body)).expiresAt > now)
                  => (TokenPostAnswer(body) = None
                        <=> PkceHolds(Get(RowOf(body)), body.codeVerifier))
    /\ (last.endpoint = "authorize" /\ IsSome(last.resp.code))
          => LET row == Get(FindCode(sha256(Get(last.resp.code))))
             IN  /\ row.codeChallenge = Get(last.req.codeChallenge)
                 /\ row.codeChallengeMethod =
                        IF IsSome(last.req.codeChallengeMethod)
                        THEN Get(last.req.codeChallengeMethod) ELSE "plain"
    /\ \A p \in InFlight :
          PkceHolds(exchange[p].authCode, exchange[p].body.codeVerifier)

\* An S256 code was exchanged, and the verifier of a code stored as plain by
\* default is refused for a code whose challenge is its digest.
C7_Witness ==
    /\ \E p \in Succeeded : oAuthCode[CodeOf(p)].codeChallengeMethod = "S256"
    /\ AnsweredToken
    /\ ReachesExchange(last.req)
    /\ BindingRight(last.req)
    /\ Get(RowOf(last.req)).codeChallengeMethod = "plain"
    /\ Get(RowOf(last.req)).usedAt = None
    /\ Get(RowOf(last.req)).expiresAt > last.at
    /\ last.req.codeVerifier # Get(RowOf(last.req)).codeChallenge
    /\ last.resp = InvalidGrant

\* The token row a header's token names exactly, and the request that was
\* answered with that token.
AnsweredToolsCall == last.endpoint = "tools/call"
RowsOf(token) == {i \in 1..Len(oAuthAccessToken) : oAuthAccessToken[i].tokenHash = sha256(token)}
IssuedTo(token) == {oAuthCode[CodeOf(p)].userId : p \in {q \in Succeeded : exchange[q].token = token}}
CarriesBearer(authorization) ==
    IsSome(authorization) /\ Get(authorization).scheme \in {"Bearer", "bearer", "BEARER"}

\* C8: the redirect of /authorize for signed-in user U carries the minted code
\* and the request's state; a token request with that code (unused, unexpired)
\* and the right verifier that presents no other client_id or redirect_uri is
\* answered 200 with a bearer token; and tools/call with an issued, unexpired
\* token and no session runs the tool for U.
C8_RoundTrip ==
    /\ (last.endpoint = "authorize" /\ IsSome(last.resp.code))
          => /\ last.resp.state = last.req.state
             /\ last.resp.location = last.req.redirectUri
             /\ Get(FindCode(sha256(Get(last.resp.code)))).userId = Get(last.req.session)
    /\ (/\ AnsweredToken
        /\ ReachesExchange(last.req)
        /\ ~PresentsOtherBinding(last.req)
        /\ PkceHolds(Get(RowOf(last.req)), last.req.codeVerifier)
        /\ Get(RowOf(last.req)).usedAt = None
        /\ Get(RowOf(last.req)).expiresAt > last.at)
          => last.resp.status = 200
    /\ \A p \in Succeeded :
          /\ exchange[p].resp.access_token = Some(exchange[p].token)
          /\ \E i \in RowsOf(exchange[p].token) :
                oAuthAccessToken[i].userId = oAuthCode[CodeOf(p)].userId
    /\ (/\ AnsweredToolsCall
        /\ last.req.session = None
        /\ CarriesBearer(last.req.authorization)
        /\ Truthy(last.req.name)
        /\ Get(last.req.name) \in ToolNames
        /\ last.req.args.valid
        /\ \E i \in RowsOf(Get(last.req.authorization).rest) :
              oAuthAccessToken[i].expiresAt > last.at)
          => \E u \in IssuedTo(Get(last.req.authorization).rest) :
                last.resp.result = Some(Ran(Get(last.req.name), Some(u)))

\* C9: a bearer lookup returns a user only for a header whose token is exactly
\* a value the server issued, and then the user it was issued to: a truncation,
\* an extension, the digest of a token or any other value resolves to null.
C9_OnlyExactTokenResolves ==
    /\ Quiet =>
          \A authorization \in AuthorizationHeaders :
              LET userId == getUserIdFromBearerToken(authorization, now, FALSE).userId
              IN  IsSome(userId) =>
                      /\ Get(authorization).rest \in IssuedTokens
                      /\ Get(userId) \in IssuedTo(Get(authorization).rest)
    /\ (/\ AnsweredToolsCall
        /\ last.req.session = None
        /\ IsSome(last.resp.result)
        /\ IsSome(Get(last.resp.result).userId))
          => /\ IsSome(last.req.authorization)
             /\ Get(Get(last.resp.result).userId) \in IssuedTo(Get(last.req.authorization).rest)

\* An unexpired token is presented with its last character missing to a tool
\* that requires a user.
C9_Witness ==
    /\ AnsweredToolsCall
    /\ last.req.session = None
    /\ CarriesBearer(last.req.authorization)
    /\ \E t \in IssuedTokens :
          /\ IsProperPrefix(Get(last.req.authorization).rest, t)
          /\ \E i \in RowsOf(t) : oAuthAccessToken[i].expiresAt > last.at
    /\ last.req.name = Some("new_game")
    /\ last.resp.code = -32001

\* The headers that carry an issued token whose expiresAt is reached.
ExpiredAt(token, t) == \E i \in RowsOf(token) : oAuthAccessToken[i].expiresAt <= t
Gated(name, args) ==
    \/ name \in AuthFirstTools
    \/ name = "list_games" /\ args.valid /\ args.scope = "my"

\* C10: once now >= expiresAt, tools/call with the token and no session answers
\* what the same call without Authorization header answers and writes nothing;
\* tools that require a user answer -32001 'Authentication required'; and a
\* header resolves to a user only while now < expiresAt of its token.
C10_ExpiredTokenIsAnonymous ==
    /\ Quiet =>
          \A t \in IssuedTokens, scheme \in {"Bearer", "bearer", "BEARER"} :
              LET with == getUserIdFromBearerToken(Some(Header(scheme, t)), now, FALSE)
                  without == getUserIdFromBearerToken(None, now, FALSE)
              IN  /\ IsSome(with.userId) => ~ExpiredAt(t, now)
                  /\ ExpiredAt(t, now) =>
                        /\ with.tokens = oAuthAccessToken
                        /\ \A name \in Names, args \in ToolArguments :
                              /\ ToolsCallResponse(None, with.userId, name, args)
                                    = ToolsCallResponse(None, without.userId, name, args)
                              /\ (Truthy(name) /\ Gated(Get(name), args)) =>
                                    ToolsCallResponse(None, with.userId, name, args)
                                        = jsonRpcError(-32001, "Authentication required", 401, TRUE)
    /\ (/\ AnsweredToolsCall
        /\ last.req.session = None
        /\ CarriesBearer(last.req.authorization)
        /\ ExpiredAt(Get(last.req.authorization).rest, last.at))
          => /\ last.resp = ToolsCallResponse(None, None, last.req.name, last.req.args)
             /\ (Truthy(last.req.name) /\ Gated(Get(last.req.name), last.req.args))
                   => last.resp.message = "Authentication required"

\* A token is presented at the very millisecond of its expiresAt to a tool
\* that requires a user.
C10_Witness ==
    /\ AnsweredToolsCall
    /\ last.req.session = None
    /\ CarriesBearer(last.req.authorization)
    /\ \E i \in RowsOf(Get(last.req.authorization).rest) :
          /\ oAuthAccessToken[i].expiresAt = last.at
          /\ oAuthAccessToken[i].expiresAt = ACCESS_TOKEN_TTL_SECONDS * 1000
    /\ last.req.name = Some("new_game")
    /\ last.resp = jsonRpcError(-32001, "Authentication required", 401, TRUE)

\* The user a header's token was issued to while the token is unexpired, the
\* caller a request acts for, and the parts of an answered POST /api/mcp.
BearerUser(authorization, t) ==
    IF /\ CarriesBearer(authorization)
       /\ IssuedTo(Get(authorization).rest) # {}
       /\ ~ExpiredAt(Get(authorization).rest, t)
    THEN Some(CHOOSE u \in IssuedTo(Get(authorization).rest) : TRUE)
    ELSE None
CallerOf(req, t) == IF IsSome(req.session) THEN req.session ELSE BearerUser(req.authorization, t)
AnsweredMcp == last.endpoint = "mcp"
IsToolsCall(req) ==
    req.dbReady /\ req.body.json = "object" /\ req.body.method = Some("tools/call")
CalledName(req) == NameOf(req.body.params)
CalledArguments(req) == ArgumentsOf(req.body.params, CalledName(req))
CallsTool(req) == IsToolsCall(req) /\ Truthy(CalledName(req)) /\ Get(CalledName(req)) \in ToolNames

\* What the response tells about the caller the tool ran for: the identity the
\* executor received, or anonymous when it answered Authentication required.
IdentityShown(response, caller) ==
    IF IsSome(response.result) THEN Get(response.result).userId = caller
    ELSE response.code = -32001 /\ caller = None

\* C11: a tool called with arguments it accepts runs for the session user when
\* there is one, also when the request carries a valid token of another user;
\* for the user of the bearer token when there is no session; and for nobody
\* (null) when there is neither.
C11_SessionBeforeBearer ==
    /\ Quiet =>
          \A req \in AllMcpRequests :
              (CallsTool(req) /\ CalledArguments(req).valid)
                  => IdentityShown(McpPostOutcome(req, now).resp.response, CallerOf(req, now))
    /\ (AnsweredMcp /\ CallsTool(last.req) /\ CalledArguments(last.req).valid)
          => IdentityShown(last.resp.response, CallerOf(last.req, last.at))

\* A signed-in user calls a tool with the valid token of another user.
C11_Witness ==
    /\ AnsweredMcp
    /\ CallsTool(last.req)
    /\ last.req.session = Some("u2")
    /\ BearerUser(last.req.authorization, last.at) = Some("u1")
    /\ IsSome(last.resp.response.result)
    /\ Get(last.resp.response.result).userId = Some("u2")

\* The answer to a caller who must sign in: JSON-RPC error -32001 with HTTP
\* 401 and a WWW-Authenticate challenge naming the authorization endpoint; no
\* executor result.
IsAuthenticationChallenge(response) ==
    /\ response.code = -32001
    /\ response.status = 401
    /\ response.result = None
    /\ IsSome(ResponseHeaders(response))
    /\ Get(ResponseHeaders(response)).authorization_uri = BaseUrl \o "/oauth/authorize"

IsStructured(resp) ==
    \/ resp.kind = "empty" /\ resp.response.status = 204
    \/ /\ resp.kind = "jsonrpc"
       /\ \/ IsSome(resp.response.result)
          \/ resp.response.code # 0 /\ resp.response.message # ""

\* C14: every POST to /api/mcp, whatever its body (no JSON, JSON that is not
\* an object, an object with any method) and whether or not the store is up,
\* ends with a JSON-RPC result or error object or with the 204 acknowledgment.
C14_AlwaysStructuredResponse ==
    AnsweredMcp => IsStructured(last.resp)

\* What the claim says of the dispatch of one request; method is what the
\* body gives as its method, if anything.
MethodOfBody(req) == BodyField(req.body, "method")
KnownMethod(req) == IsSome(MethodOfBody(req)) /\ Get(MethodOfBody(req)) \in Methods
IsError(resp, code) ==
    resp.kind = "jsonrpc" /\ resp.response.code = code /\ resp.response.result = None
DispatchAsClaimed(req, resp) ==
    /\ req.body.json = "malformed"
          => resp = Envelope(None, jsonRpcError(-32700, "Invalid JSON", 400, FALSE))
    /\ (req.body.json # "malformed" /\ req.dbReady /\ ~KnownMethod(req))
          => IsError(resp, -32601)
    /\ (IsToolsCall(req) /\ ~Truthy(CalledName(req)))
          => IsError(resp, -32602)
    /\ (req.body.json # "malformed" /\ req.dbReady /\ KnownMethod(req))
          => /\ ~IsError(resp, -32700)
             /\ ~IsError(resp, -32601)
             /\ IsError(resp, -32602) => (IsToolsCall(req) /\ ~Truthy(CalledName(req)))

\* C15: with the store up, a body that is not JSON answers -32700 with id
\* null; every other body whose method is none of the eight (or is missing)
\* answers -32601 and runs no tool; tools/call without a non-empty string name
\* answers -32602 and runs no tool; and no request with one of the eight
\* methods gets -32700 or -32601, nor -32602 unless it is such a tools/call.
C15_DispatchTotalAndExclusive ==
    AnsweredMcp => DispatchAsClaimed(last.req, last.resp)

\* The fixed read-only set.
FixedReadOnlyNames ==
    { "query_users_by_email", "snapshot", "status", "get_game_status", "history",
      "get_game_history", "list_games", "get_game", "get_chat_messages" }
IsToolsList(req) == req.dbReady /\ MethodOfBody(req) = Some("tools/list")
HintsAsFixed(result) ==
    /\ result.kind = "tools"
    /\ { result.tools[i].name : i \in DOMAIN result.tools } = ToolNames
    /\ Len(result.tools) = Cardinality(ToolNames)
    /\ \A i \in DOMAIN result.tools :
          /\ result.tools[i].annotations \in {None, Some([readOnlyHint |-> TRUE])}
          /\ IsSome(result.tools[i].annotations) <=> result.tools[i].name \in FixedReadOnlyNames
    /\ \A name \in {"new_game", "move_piece", "post_chat_message"} :
          \E i \in DOMAIN result.tools :
              result.tools[i].name = name /\ result.tools[i].annotations = None

\* C16: tools/list lists every registered tool once, with readOnlyHint true
\* exactly on the names of the fixed read-only set, all of them registered;
\* new_game, move_piece and post_chat_message carry no annotation; and the
\* result is the same for every caller, id and state of the store.
C16_ReadOnlyHintsFixed ==
    /\ FixedReadOnlyNames \subseteq ToolNames
    /\ HintsAsFixed(ToolsList)
    /\ Quiet =>
          \A req \in AllMcpRequests :
              IsToolsList(req) =>
                  McpPostOutcome(req, now).resp
                      = Envelope(BodyField(req.body, "id"), jsonRpcSuccess(ToolsList))
    /\ (AnsweredMcp /\ IsToolsList(last.req))
          => /\ IsSome(last.resp.response.result)
             /\ HintsAsFixed(Get(last.resp.response.result))
             /\ last.resp.response.result = Some(ToolsList)

\* tools/list is answered after tokens were issued.
C16_Witness ==
    /\ AnsweredMcp
    /\ IsToolsList(last.req)
    /\ oAuthAccessToken # <<>>
    /\ \E i, j \in DOMAIN Get(last.resp.response.result).tools :
          LET tools == Get(last.resp.response.result).tools
          IN  /\ tools[i].name = "list_games" /\ tools[i].annotations = Some([readOnlyHint |-> TRUE])
              /\ tools[j].name = "move_piece" /\ tools[j].annotations = None

\* What GET /oauth/authorize answers to a request in the current state.
AuthorizeResponse(req) ==
    IF IsSome(AuthorizeRejection(req)) THEN Get(AuthorizeRejection(req))
    ELSE CodeRedirect(Get(req.redirectUri), req.state, NewCodeValue(Len(oAuthCode) + 1))
AnsweredAuthorize == last.endpoint = "authorize"

\* The states in which every request of AllAuthorizeRequests is tried: no
\* request is being answered, at most one code is stored, no exchange started.
FewCodes == Quiet /\ Len(oAuthCode) <= 1 /\ DoneSlots \cup InFlight = {}

\* An absolute http or https URL without fragment.
ValidRedirect(redirectUri) ==
    /\ IsSome(redirectUri)
    /\ Get(redirectUri).parses
    /\ Get(redirectUri).protocol \in {"http:", "https:"}
    /\ Get(redirectUri).hash = ""

\* The response to req redirects to redirect_uri only if that URI is valid,
\* and is the terminal JSON 400 when client_id or redirect_uri is missing or
\* the URI is not valid.
RedirectsOnlyToValid(req, resp) ==
    /\ resp.kind = "redirect" =>
          /\ ValidRedirect(req.redirectUri)
          /\ Truthy(req.clientId)
          /\ resp.location = req.redirectUri
    /\ (~Truthy(req.clientId) \/ ~ValidRedirect(req.redirectUri)) =>
          /\ resp = JsonError("invalid_request")
          /\ resp.status = 400
          /\ resp.location = None
          /\ resp.code = None

C17_NoRedirectToUnvalidated ==
    /\ FewCodes =>
          \A req \in AllAuthorizeRequests : RedirectsOnlyToValid(req, AuthorizeResponse(req))
    /\ AnsweredAuthorize => RedirectsOnlyToValid(last.req, last.resp)

C17_RefusalMintsNothing ==
    (/\ Quiet
     /\ last'.endpoint = "authorize"
     /\ ~Truthy(last'.req.clientId) \/ ~ValidRedirect(last'.req.redirectUri))
        => oAuthCode' = oAuthCode

\* C17: /authorize redirects to the caller's redirect_uri only when that URI
\* is an absolute http/https URL without fragment (and client_id is present);
\* a request without client_id or redirect_uri, or with a redirect_uri that is
\* not valid, gets the JSON 400 error, and that step stores no code.
C17_UnvalidatedRedirectUriIsTerminal ==
    []C17_NoRedirectToUnvalidated /\ [][C17_RefusalMintsNothing]_vars

\* A signed-in user's request with a fragment in redirect_uri is refused.
C17_Witness ==
    /\ AnsweredAuthorize
    /\ IsSome(last.req.session)
    /\ Truthy(last.req.clientId)
    /\ last.req.redirectUri = Some(RFragment)
    /\ last.resp = JsonError("invalid_request")

\* The checks of /authorize after redirect_uri is validated, in the order of
\* the claim: the error and description of the first that fails, or None.
WellFormedChallenge(challenge) ==
    /\ IsSome(challenge)
    /\ Get(challenge).kind # "bad"
    /\ Get(challenge).len >= 43
    /\ Get(challenge).len <= 128
SupportedMethod(method) ==
    ~IsSome(method) \/ Get(method) \in {"S256", "plain", " S256 ", "plain "}
ClientAllowed(clientId) ==
    allowedClientIds = {} \/ clientId \in allowedClientIds
FirstFailure(req) ==
    IF req.responseType # Some("code")
    THEN Some(<<"unsupported_response_type", "Only response_type=code is supported">>)
    ELSE IF ~WellFormedChallenge(req.codeChallenge)
    THEN Some(<<"invalid_request", "Missing or invalid code_challenge">>)
    ELSE IF ~SupportedMethod(req.codeChallengeMethod)
    THEN Some(<<"invalid_request", "Unsupported code_challenge_method">>)
    ELSE IF ~ClientAllowed(Get(req.clientId))
    THEN Some(<<"unauthorized_client", "Client is not allowed">>)
    ELSE None
Validated(req) == Truthy(req.clientId) /\ ValidRedirect(req.redirectUri)

\* The response to a validated request that fails a check is the 302 to
\* redirect_uri with the first failure's error and description, the state
\* (when one was sent) and no code.
ReportsFirstFailure(req, resp) ==
    (Validated(req) /\ IsSome(FirstFailure(req))) =>
        /\ resp.status = 302
        /\ resp.kind = "redirect"
        /\ resp.location = req.redirectUri
        /\ resp.error = Get(FirstFailure(req))[1]
        /\ resp.error_description = Get(FirstFailure(req))[2]
        /\ resp.state = (IF Truthy(req.state) THEN req.state ELSE None)
        /\ resp.code = None

C18_FirstFailureReported ==
    /\ FewCodes =>
          \A req \in AllAuthorizeRequests : ReportsFirstFailure(req, AuthorizeResponse(req))
    /\ AnsweredAuthorize => ReportsFirstFailure(last.req, last.resp)

C18_FailureMintsNothing ==
    (/\ Quiet
     /\ last'.endpoint = "authorize"
     /\ Validated(last'.req)
     /\ IsSome(FirstFailure(last'.req)))
        => oAuthCode' = oAuthCode

\* C18: with client_id present and redirect_uri valid, the first failing check
\* in the order response_type, code_challenge, code_challenge_method,
\* allow-list is reported as a 302 to redirect_uri with its error, its
\* error_description and the state that was sent, signed in or not, and the
\* step stores no code.
C18_ErrorsRedirectInOrder ==
    []C18_FirstFailureReported /\ [][C18_FailureMintsNothing]_vars

\* A caller who is not signed in sends a request that fails three checks.
C18_Witness ==
    /\ AnsweredAuthorize
    /\ last.req.session = None
    /\ Validated(last.req)
    /\ last.req.responseType = Some("token")
    /\ ~WellFormedChallenge(last.req.codeChallenge)
    /\ ~SupportedMethod(last.req.codeChallengeMethod)
    /\ last.resp.error = "unsupported_response_type"
    /\ last.resp.state = Some("xyz")

\* A stored code bears the marks of a request that passed every check.
RowPassedChecks(row) ==
    /\ row.userId \in Users
    /\ row.codeChallengeMethod \in {"S256", "plain"}
    /\ WellFormedChallenge(Some(row.codeChallenge))
    /\ ValidRedirect(Some(row.redirectUri))
    /\ ClientAllowed(row.clientId)

\* The callback of a sign-in redirect holds every parameter of the request
\* as it was sent.
SameQuery(callback, req) ==
    /\ IsSome(callback)
    /\ Get(callback).responseType = req.responseType
    /\ Get(callback).clientId = req.clientId
    /\ Get(callback).redirectUri = req.redirectUri
    /\ Get(callback).state = req.state
    /\ Get(callback).scope = req.scope
    /\ Get(callback).resource = req.resource
    /\ Get(callback).codeChallenge = req.codeChallenge
    /\ Get(callback).codeChallengeMethod = req.codeChallengeMethod

\* A request without session that passes the checks is sent to sign in.
SentToSignIn(req, resp) ==
    (req.session = None /\ Validated(req) /\ FirstFailure(req) = None) =>
        /\ resp.status = 302
        /\ resp.kind = "signin"
        /\ resp.code = None
        /\ SameQuery(resp.callback, req)

C19_StoredCodesPassedChecks ==
    /\ \A i \in 1..Len(oAuthCode) : RowPassedChecks(oAuthCode[i])
    /\ FewCodes =>
          \A req \in AllAuthorizeRequests : SentToSignIn(req, AuthorizeResponse(req))
    /\ AnsweredAuthorize =>
          /\ SentToSignIn(last.req, last.resp)
          /\ last.req.session = None => last.resp.code = None

\* A step changes the code table only by appending one row, and only when it
\* answers an /authorize request with a session that passes every check; the
\* row is that session's user's, for that request's client, redirect URI and
\* challenge. A stored row keeps all of this afterwards.
C19_CodeOnlyFromSignedInRequest ==
    /\ Len(oAuthCode') >= Len(oAuthCode)
    /\ \A i \in 1..Len(oAuthCode) :
          [oAuthCode'[i] EXCEPT !.usedAt = None] = [oAuthCode[i] EXCEPT !.usedAt = None]
    /\ Len(oAuthCode') > Len(oAuthCode) =>
          /\ Len(oAuthCode') = Len(oAuthCode) + 1
          /\ Quiet
          /\ last'.endpoint = "authorize"
          /\ IsSome(last'.req.session)
          /\ Validated(last'.req)
          /\ FirstFailure(last'.req) = None
          /\ oAuthCode'[Len(oAuthCode')].userId = Get(last'.req.session)
          /\ oAuthCode'[Len(oAuthCode')].clientId = Get(last'.req.clientId)
          /\ oAuthCode'[Len(oAuthCode')].redirectUri = Get(last'.req.redirectUri)
          /\ oAuthCode'[Len(oAuthCode')].codeChallenge = Get(last'.req.codeChallenge)
          /\ last'.resp.code = Some(NewCodeValue(Len(oAuthCode')))
    /\ (Quiet /\ last'.endpoint = "authorize" /\ last'.req.session = None) =>
          oAuthCode' = oAuthCode

\* C19: every stored authorization code was appended by an /authorize step
\* whose request had a session and passed all checks (the row's user is the
\* session's, its method is S256 or plain, its challenge well-formed, its
\* client allowed); a request without session stores no code, and when it
\* passes the checks it is redirected to sign-in with a callback holding the
\* query as sent.
C19_CodesComeFromSignedInRequests ==
    []C19_StoredCodesPassedChecks /\ [][C19_CodeOnlyFromSignedInRequest]_vars

\* A code was stored for u2, and then u2's client asked again without session.
C19_Witness ==
    /\ AnsweredAuthorize
    /\ last.req.session = None
    /\ last.resp.kind = "signin"
    /\ SameQuery(last.resp.callback, last.req)
    /\ \E i \in 1..Len(oAuthCode) :
          /\ oAuthCode[i].userId = "u2"
          /\ oAuthCode[i].clientId = Get(last.req.clientId)

\* The client is named and is outside a non-empty allow-list.
Outsider(clientId) ==
    /\ allowedClientIds # {}
    /\ clientId # ""
    /\ clientId \notin allowedClientIds

\* An /authorize request that passes every check before the allow-list.
ReachesAllowList(req) ==
    /\ Validated(req)
    /\ req.responseType = Some("code")
    /\ WellFormedChallenge(req.codeChallenge)
    /\ SupportedMethod(req.codeChallengeMethod)

\* A /token request that passes every check before the allow-list.
TokenReachesAllowList(body) ==
    /\ body.grantType = "authorization_code"
    /\ body.code # EmptyStr
    /\ WellFormedChallenge(Some(body.codeVerifier))

AuthorizeAllowList(req, resp) ==
    /\ (ReachesAllowList(req) /\ Outsider(Get(req.clientId))) =>
          /\ resp.status = 302
          /\ resp.location = req.redirectUri
          /\ resp.error = "unauthorized_client"
          /\ resp.code = None
    /\ resp.error = "unauthorized_client" =>
          (IsSome(req.clientId) /\ Outsider(Get(req.clientId)))

TokenAllowList(body, resp) ==
    /\ (TokenReachesAllowList(body) /\ Outsider(body.clientId)) =>
          /\ resp.status = 400
          /\ resp.error = "unauthorized_client"
          /\ resp.access_token = None
    /\ resp.error = "unauthorized_client" => Outsider(body.clientId)

\* What POST /oauth/token answers to body at once, or the 200 it is on the way
\* to when it is suspended at the update.
TokenAnswerOrOk(body) ==
    IF IsSome(TokenPostAnswer(body)) THEN Get(TokenPostAnswer(body))
    ELSE [status |-> 200, error |-> "", access_token |-> Some(EmptyStr)]

C20_AllowListDecides ==
    /\ FewCodes =>
          \A req \in AllAuthorizeRequests : AuthorizeAllowList(req, AuthorizeResponse(req))
    /\ FewCodes =>
          \A body \in AllTokenBodies : TokenAllowList(body, TokenAnswerOrOk(body))
    /\ AnsweredAuthorize => AuthorizeAllowList(last.req, last.resp)
    /\ last.endpoint = "token" => TokenAllowList(last.req, last.resp)
    /\ \A p \in DoneSlots : exchange[p].resp.error # "unauthorized_client"

\* The step that answers unauthorized_client at /token leaves the codes, the
\* tokens and the exchanges as they were.
C20_RefusalTouchesNothing ==
    (/\ Quiet
     /\ last'.endpoint = "token"
     /\ last'.resp.error = "unauthorized_client")
        => UNCHANGED <<oAuthCode, oAuthAccessToken, exchange>>

\* C20: with a non-empty allow-list a client outside it is answered
\* unauthorized_client by /authorize and, when the request names it, by
\* /token, as soon as the request passes the checks that come first; nobody
\* else is ever answered unauthorized_client, so an empty list admits every
\* client; the /token refusal is the same whether or not the code exists and
\* changes neither the codes nor the tokens.
C20_AllowListEnforcedAtBothEndpoints ==
    []C20_AllowListDecides /\ [][C20_RefusalTouchesNothing]_vars

\* c2, outside the list, presents a code that was minted for c1 and is good:
\* it is refused and the code stays unused.
C20_Witness ==
    /\ allowedClientIds = {"c1"}
    /\ last.endpoint = "token"
    /\ last.req.clientId = "c2"
    /\ last.resp.error = "unauthorized_client"
    /\ \E i \in 1..Len(oAuthCode) :
          /\ last.req.code = NewCodeValue(i)
          /\ oAuthCode[i].clientId = "c1"
          /\ oAuthCode[i].usedAt = None
          /\ oAuthCode[i].expiresAt >= last.at

\* The checks of /token in the order of the claim: the error of the first
\* that fails, or None.
TokenFirstFailure(body) ==
    IF body.grantType # "authorization_code" THEN Some("unsupported_grant_type")
    ELSE IF body.code = EmptyStr \/ body.codeVerifier = EmptyStr THEN Some("invalid_request")
    ELSE IF ~WellFormedChallenge(Some(body.codeVerifier)) THEN Some("invalid_request")
    ELSE IF Outsider(body.clientId) THEN Some("unauthorized_client")
    ELSE None

\* The first failure is the answer, with status 400 and no token; a request
\* that passes them all is answered invalid_grant or gets its token.
AnswersFirstFailure(body, resp) ==
    IF IsSome(TokenFirstFailure(body))
    THEN /\ resp.status = 400
         /\ resp.error = Get(TokenFirstFailure(body))
         /\ resp.access_token = None
    ELSE resp.error \in {"invalid_grant", ""}

C21_FirstFailureAnswers ==
    /\ FewCodes =>
          \A body \in AllFaultTokenBodies : AnswersFirstFailure(body, TokenAnswerOrOk(body))
    /\ last.endpoint = "token" => AnswersFirstFailure(last.req, last.resp)
    /\ \A p \in InFlight : TokenFirstFailure(exchange[p].body) = None

\* The step that answers a failure of these checks leaves the codes, the
\* tokens and the exchanges as they were.
C21_FailureTouchesNothing ==
    (/\ Quiet
     /\ last'.endpoint = "token"
     /\ IsSome(TokenFirstFailure(last'.req)))
        => UNCHANGED <<oAuthCode, oAuthAccessToken, exchange>>

\* C21: /token answers with the first failure in the order grant_type
\* (unsupported_grant_type), missing code or code_verifier (invalid_request),
\* verifier outside 43-128 unreserved characters (invalid_request), allow-list
\* (unauthorized_client); invalid_grant is answered only to a request that
\* passes all four; a step answering one of the four failures changes neither
\* the codes nor the tokens nor starts an exchange.
C21_TokenChecksInOrder ==
    []C21_FirstFailureAnswers /\ [][C21_FailureTouchesNothing]_vars

\* c2, outside the list, sends no code and a verifier with a bad character:
\* the missing code decides.
C21_Witness ==
    /\ allowedClientIds = {"c1"}
    /\ last.endpoint = "token"
    /\ last.req.grantType = "authorization_code"
    /\ last.req.code = EmptyStr
    /\ last.req.codeVerifier = VBad
    /\ last.req.clientId = "c2"
    /\ last.resp.error = "invalid_request"
    /\ Len(oAuthCode) > 0

\* The origins of the known agents.
KnownAgentOrigins ==
    { "https://chatgpt.com", "https://chat.openai.com",
      "https://chatgpt.com/", "https://chat.openai.com/" }

\* The headers hold CORS headers whose allow-origin is the origin of the
\* request when an agent's, and * otherwise.
CorsFor(origin, headers) ==
    /\ IsSome(headers.cors)
    /\ Get(headers.cors).allowOrigin = (IF origin \in KnownAgentOrigins THEN origin ELSE "*")
    /\ Get(headers.cors).allowMethods = "POST,OPTIONS"

AnsweredTokenEndpoint == last.endpoint \in {"token", "token-unread", "token-options"}

\* C22: every response of /oauth/token (the preflight, the answers given
\* when the database is down or the body cannot be parsed, every other error
\* and the 200) carries CORS headers whose access-control-allow-origin is the
\* request's Origin when that is a known agent origin and * otherwise.
C22_EveryTokenResponseHasCors ==
    /\ AnsweredTokenEndpoint => CorsFor(last.req.origin, last.headers)
    /\ \A p \in DoneSlots : CorsFor(exchange[p].origin, exchange[p].headers)

\* A token was issued to a page of a known agent, and a request from a
\* stranger's page was then answered while the database was down.
C22_Witness ==
    /\ \E p \in Succeeded :
          /\ exchange[p].origin = "https://chatgpt.com"
          /\ Get(exchange[p].headers.cors).allowOrigin = "https://chatgpt.com"
    /\ last.endpoint = "token-unread"
    /\ last.resp.error = "server_error"
    /\ last.req.origin = "https://chatgpt.com.evil.example"
    /\ Get(last.headers.cors).allowOrigin = "*"

\* The request with the update succeeding.
UpdateSucceeding(req) == [req EXCEPT !.updateFails = FALSE]

\* C23: when the update of lastUsedAt is rejected, getUserIdFromBearerToken
\* returns the user the token was issued to, as when it succeeds, and the
\* tools/call is answered exactly as when it succeeds; the failed write leaves
\* the token table as it was.
C23_FailedStampChangesNothing ==
    /\ Quiet =>
          \A req \in AllStampRequests :
              /\ getUserIdFromBearerToken(req.authorization, now, TRUE).userId
                    = BearerUser(req.authorization, now)
              /\ getUserIdFromBearerToken(req.authorization, now, FALSE).userId
                    = BearerUser(req.authorization, now)
              /\ McpPostOutcome(UpdateFailing(req), now).resp = McpPostOutcome(req, now).resp
              /\ McpPostOutcome(UpdateFailing(req), now).tokens = oAuthAccessToken
    /\ (AnsweredMcp /\ last.req.updateFails) =>
          /\ last.resp = McpPostOutcome(UpdateSucceeding(last.req), last.at).resp
          /\ CallsTool(last.req) /\ CalledArguments(last.req).valid =>
                IdentityShown(last.resp.response, CallerOf(last.req, last.at))

\* A call with a valid token and no session runs for the token's user although
\* the stamp was not written.
C23_Witness ==
    /\ AnsweredMcp
    /\ last.req.updateFails
    /\ last.req.session = None
    /\ IsSome(BearerUser(last.req.authorization, last.at))
    /\ CalledName(last.req) = Some("new_game")
    /\ IsSome(last.resp.response.result)
    /\ Get(last.resp.response.result).userId = BearerUser(last.req.authorization, last.at)
    /\ \A i \in 1..Len(oAuthAccessToken) : oAuthAccessToken[i].lastUsedAt = None

\* The token table after differs from the one before at most in the
\* lastUsedAt of the rows of the token that authorization presents.
OnlyStamped(before, after, authorization) ==
    /\ Len(after) = Len(before)
    /\ \A i \in 1..Len(before) :
          /\ [after[i] EXCEPT !.lastUsedAt = None] = [before[i] EXCEPT !.lastUsedAt = None]
          /\ after[i].lastUsedAt # before[i].lastUsedAt =>
                /\ CarriesBearer(authorization)
                /\ before[i].tokenHash = sha256(Get(authorization).rest)

\* One row was appended to the table and no other row differs.
Appended(before, after) ==
    /\ Len(after) = Len(before) + 1
    /\ \A i \in 1..Len(before) : after[i] = before[i]

\* The tables have the same rows up to the usedAt of codes.
OnlyUsedAt(before, after) ==
    /\ Len(after) = Len(before)
    /\ \A i \in 1..Len(before) :
          [after[i] EXCEPT !.usedAt = None] = [before[i] EXCEPT !.usedAt = None]

C24_ToolCallsOnlyStamp ==
    Quiet =>
        \A req \in AllToolRequests, fails \in BOOLEAN :
            OnlyStamped(oAuthAccessToken,
                        McpPostOutcome([req EXCEPT !.updateFails = fails], now).tokens,
                        req.authorization)

C24_WritersOfAuthTables ==
    /\ (Quiet /\ last'.endpoint = "mcp") =>
          /\ oAuthCode' = oAuthCode
          /\ OnlyStamped(oAuthAccessToken, oAuthAccessToken', last'.req.authorization)
    /\ oAuthCode' # oAuthCode =>
          \/ /\ Quiet /\ last'.endpoint = "authorize"
             /\ Appended(oAuthCode, oAuthCode')
          \/ /\ \E p \in Slots : exchange[p].pc = "updateMany" /\ exchange'[p].pc # "updateMany"
             /\ OnlyUsedAt(oAuthCode, oAuthCode')
    /\ oAuthAccessToken' # oAuthAccessToken =>
          \/ Quiet /\ last'.endpoint = "mcp"
          \/ /\ \E p \in Slots : exchange[p].pc = "create" /\ exchange'[p].pc = "done"
             /\ Appended(oAuthAccessToken, oAuthAccessToken')

\* C24: a tools/call, whatever the tool, the arguments and the caller, leaves
\* the codes unchanged and changes of the tokens at most the lastUsedAt of the
\* token presented; codes change only by a row appended by /authorize or the
\* usedAt written by /token, and token rows are added only by /token.
C24_ToolsNeverMutateAuthTables ==
    []C24_ToolCallsOnlyStamp /\ [][C24_WritersOfAuthTables]_vars

\* Two tokens are live; a call presented one of them and ran: that token is
\* stamped, the other is not, and the codes are as /token left them.
C24_Witness ==
    /\ AnsweredMcp
    /\ last.resp.kind = "jsonrpc"
    /\ IsSome(last.resp.response.result)
    /\ CarriesBearer(last.req.authorization)
    /\ Len(oAuthAccessToken) = 2
    /\ \E i, j \in 1..2 :
          /\ oAuthAccessToken[i].tokenHash = sha256(Get(last.req.authorization).rest)
          /\ oAuthAccessToken[i].lastUsedAt = Some(last.at)
          /\ oAuthAccessToken[j].lastUsedAt = None
          /\ oAuthAccessToken[j].userId = oAuthAccessToken[i].userId
    /\ \A n \in 1..Len(oAuthCode) : IsSome(oAuthCode[n].usedAt)

\* The initializations that have not settled: running, or thrown with the
\* catch handler still to run.
Initializing == { k \in 1..Len(promises) : promises[k] \in {"pending", "rejecting"} }
Awaiting(c) == callers[c].pc = "await"
Calls(c) == callers[c].pc = "idle" /\ callers'[c].pc = "await"

C25_OneInitialization ==
    /\ Cardinality(Initializing) <= 1
    /\ \A k \in Initializing : dbReadyPromise = Some(k)
    /\ \A k \in 1..Len(promises) :
          /\ promises[k] = "fulfilled" => (k = Len(promises) /\ dbReadyPromise = Some(k))
          /\ (promises[k] = "rejected" /\ k = Len(promises)) => dbReadyPromise = None
    /\ \A c \in Callers :
          callers[c].pc = "done" =>
              callers[c].outcome =
                  (IF promises[callers[c].promise] = "fulfilled" THEN "returned" ELSE "threw")

C25_CallsShareOrRestart ==
    \A c \in Callers :
        Calls(c) =>
            /\ \A k \in Initializing :
                  callers'[c].promise = k /\ promises' = promises
            /\ \A k \in 1..Len(promises) :
                  promises[k] = "fulfilled" =>
                      callers'[c].promise = k /\ promises' = promises
            /\ (promises # <<>> /\ promises[Len(promises)] = "rejected") =>
                  /\ promises' = Append(promises, "pending")
                  /\ callers'[c].promise = Len(promises) + 1
                  /\ dbReadyPromise' = Some(Len(promises) + 1)

\* C25: at most one initialization is unsettled at any time and it is the one
\* memoized; a call made meanwhile awaits that same promise and every caller
\* gets the outcome of the promise it awaited; once an initialization has
\* succeeded every later call gets its promise and none is started; once the
\* last one has failed the memo is empty and the next call starts a new one.
C25_InitializeOnceResetOnFailure ==
    []C25_OneInitialization /\ [][C25_CallsShareOrRestart]_vars

\* Two callers shared the first initialization, which failed; the third then
\* started the second, which succeeded.
C25_Witness ==
    /\ promises = <<"rejected", "fulfilled">>
    /\ callers["r1"] = [pc |-> "done", promise |-> 1, outcome |-> "threw"]
    /\ callers["r2"] = [pc |-> "done", promise |-> 1, outcome |-> "threw"]
    /\ callers["r3"] = [pc |-> "done", promise |-> 2, outcome |-> "returned"]


\* The player whose turn it is in position fen of game row g.
TurnHolder(g, fen) == IF fen.turn = "w" THEN g.whiteId ELSE g.blackId

\* The caller is authenticated, the game exists and is ACTIVE, the caller is
\* its white or black player and it is the caller's colour to move.
MayMove(userId, args) ==
    /\ IsSome(userId)
    /\ IsSome(FindGame(args.gameId))
    /\ Get(FindGame(args.gameId)).status = "ACTIVE"
    /\ Get(userId) \in {Get(FindGame(args.gameId)).whiteId, Get(FindGame(args.gameId)).blackId}
    /\ Get(userId) = TurnHolder(Get(FindGame(args.gameId)), Get(FindGame(args.gameId)).fen)

MoveSucceeded(inv) ==
    /\ inv.endpoint = "tool"
    /\ inv.req.name = "move_piece"
    /\ IsSome(inv.resp.result)

C26_AcceptsOnlyTurnHolder ==
    Quiet =>
        \A req \in AllMoveRequests :
            ~IsSome(move_piece_check(req.userId, req.args).message) =>
                MayMove(req.userId, req.args)

C26_StoredMovesByTurnHolder ==
    \A i \in 1..Len(move) :
        move[i].byUserId = TurnHolder(game[move[i].gameId], move[i].fenBefore)

C26_SuccessOnlyAfterChecks ==
    /\ Len(tx') > Len(tx) =>
            MayMove(tx'[Len(tx')].req.userId, tx'[Len(tx')].req.args)
    /\ (last = NoInvocation /\ MoveSucceeded(last')) =>
            \E p \in 1..Len(tx) :
                /\ tx[p].pc = "write" /\ tx'[p].pc = "done"
                /\ tx[p].req = last'.req
                /\ tx[p].userId = TurnHolder(game[tx[p].gameId], tx[p].fenBefore)
                /\ Len(move') = Len(move) + 1
                /\ move'[Len(move')].byUserId = tx[p].userId
                /\ move'[Len(move')].fenBefore = tx[p].fenBefore

\* C26: move_piece is accepted only for an authenticated caller who is the
\* white or black player of an ACTIVE game in which it is the caller's colour
\* to move, in the game row the transaction read; a call succeeds only as the
\* commit of a transaction that was so accepted; and every stored move was made
\* by the player whose turn it was in its fenBefore.
C26_MoveOnlyByTurnHolder ==
    /\ [](C26_AcceptsOnlyTurnHolder /\ C26_StoredMovesByTurnHolder)
    /\ [][C26_SuccessOnlyAfterChecks]_vars

\* White and then black have moved in one game, and the second move is being
\* answered.
C26_Witness ==
    /\ MoveSucceeded(last)
    /\ \E i, j \in 1..Len(move) :
        /\ move[i].gameId = move[j].gameId
        /\ move[i].ply = 1 /\ move[j].ply = 2
        /\ move[i].byUserId = game[move[i].gameId].whiteId
        /\ move[j].byUserId = game[move[j].gameId].blackId
        /\ move[j].byUserId = Get(last.req.userId)


\* The caller is authenticated and is the white or black player of an existing
\* public game.
MayChat(userId, args) ==
    /\ IsSome(userId)
    /\ IsSome(FindGame(args.gameId))
    /\ Get(FindGame(args.gameId)).isPublic
    /\ Get(userId) \in {Get(FindGame(args.gameId)).whiteId, Get(FindGame(args.gameId)).blackId}

ChatPosted(inv) ==
    /\ inv.endpoint = "tool"
    /\ inv.req.name = "post_chat_message"
    /\ IsSome(inv.resp.result)

C27_AcceptsOnlyPlayers ==
    Quiet =>
        \A req \in AllChatRequests :
            ~IsSome(post_chat_message_check(req.userId, req.args).message) =>
                MayChat(req.userId, req.args)

C27_StoredMessagesByPlayers ==
    \A i \in 1..Len(chatMessage) :
        /\ chatMessage[i].gameId \in 1..Len(game)
        /\ chatMessage[i].userId \in {game[chatMessage[i].gameId].whiteId,
                                       game[chatMessage[i].gameId].blackId}

C27_CreatedOnlyForPlayers ==
    /\ chatMessage' # chatMessage =>
        /\ ChatPosted(last')
        /\ MayChat(last'.req.userId, last'.req.args)
        /\ Len(chatMessage') = Len(chatMessage) + 1
        /\ SubSeq(chatMessage', 1, Len(chatMessage)) = chatMessage
        /\ chatMessage'[Len(chatMessage')].userId = Get(last'.req.userId)
        /\ chatMessage'[Len(chatMessage')].gameId = last'.req.args.gameId
    /\ (last = NoInvocation /\ ChatPosted(last')) => chatMessage' # chatMessage

\* C27: post_chat_message creates a chat message only when the caller is
\* authenticated and is the white or black player of an existing public game,
\* the message then being the caller's in that game; every stored chat message
\* of a game was authored by one of its two players.
C27_ChatOnlyByPlayers ==
    /\ [](C27_AcceptsOnlyPlayers /\ C27_StoredMessagesByPlayers)
    /\ [][C27_CreatedOnlyForPlayers]_vars

\* The black player's message is being answered after the white player's was
\* stored.
C27_Witness ==
    /\ ChatPosted(last)
    /\ Len(chatMessage) = 2
    /\ chatMessage[1].userId = game[chatMessage[1].gameId].whiteId
    /\ chatMessage[2].userId = game[chatMessage[2].gameId].blackId
    /\ chatMessage[2].userId = Get(last.req.userId)


\* The key a request gives: its x-reminder-key header, or without one the
\* value after the bearer scheme of its Authorization header.
GivenKey(req) ==
    IF req.xReminderKey \notin {None, Some("")} THEN req.xReminderKey
    ELSE IF req.authorization = None THEN None
    ELSE IF Get(req.authorization).scheme \notin {"Bearer", "bearer", "BEARER"} THEN None
    ELSE IF Get(req.authorization).rest = " k " THEN Some("k")
    ELSE Some(Get(req.authorization).rest)

\* The key configured is the one the request gives, or none is configured.
KeyAccepted(req) == ~IsSome(reminderApiKey) \/ GivenKey(req) = reminderApiKey

Unauthorized == ReminderError(401, "Unauthorized")

\* The step hands a turn reminder to the mailer.
MailerCalled ==
    \E i \in (Len(outbox) + 1)..Len(outbox') : outbox'[i].kind = "turn-reminder"

C28_KeyDecides401 ==
    Quiet =>
        \A req \in AllReminderRequests :
            IF KeyAccepted(req)
            THEN ReminderEarly(req) # Some(Unauthorized)
            ELSE ReminderEarly(req) = Some(Unauthorized)

C28_GoesOnOnlyWhen ==
    (Len(tx') > Len(tx) /\ tx'[Len(tx')].kind = "reminder") =>
        LET req == tx'[Len(tx')].req
        IN  /\ KeyAccepted(req)
            /\ IsSome(FindGame(req.payload.gameId))
            /\ Get(FindGame(req.payload.gameId)).status = "ACTIVE"
            /\ Truthy(toMoveUser(Get(FindGame(req.payload.gameId))).email)
            /\ tx'[Len(tx')].toEmail = Get(toMoveUser(Get(FindGame(req.payload.gameId))).email)

C28_MailsOnlyWhen ==
    MailerCalled =>
        \E p \in 1..Len(tx) :
            /\ tx[p].kind = "reminder" /\ tx[p].pc = "lastMove" /\ tx'[p].pc = "done"
            /\ KeyAccepted(tx[p].req)
            /\ ~tx[p].req.payload.dryRun
            /\ now - referenceTime(tx[p])
                   >= tx[p].req.payload.minMinutesSinceLastMove * MsPerMinute
            /\ last' = [endpoint |-> "reminder", req |-> tx[p].req, at |-> now,
                        resp |-> ReminderMailed]

C28_OtherAnswersMailNothing ==
    (last = NoInvocation /\ last'.endpoint = "reminder" /\ last'.resp # ReminderMailed) =>
        outbox' = outbox

\* C28: the reminder endpoint answers 401 exactly when REMINDER_API_KEY is set
\* and the key of the request (x-reminder-key, else the bearer value) differs
\* from it, and a 401 hands nothing to the mailer; and the mailer is called
\* only by a request that found the game, found it ACTIVE and found an e-mail
\* address for the player to move, when the minutes since the last move are
\* not below the threshold and dryRun is not set.
C28_ReminderKeyAndSkips ==
    /\ []C28_KeyDecides401
    /\ [][C28_GoesOnOnlyWhen /\ C28_MailsOnlyWhen /\ C28_OtherAnswersMailNothing]_vars

\* With the key configured, a reminder is mailed for a game in which a move
\* was made a minute ago.
C28_Witness ==
    /\ IsSome(reminderApiKey)
    /\ last.endpoint = "reminder"
    /\ last.resp = ReminderMailed
    /\ MovesOf(last.req.payload.gameId) # {}
    /\ outbox[Len(outbox)].kind = "turn-reminder"


\* The result carries image data: string data that is not empty once trimmed,
\* with a string mimeType that starts with "image/".
CarriesImageData(result) ==
    /\ result.kind = "object"
    /\ result.data \in {Str(" QUJD "), Str("QUJD"), Str("@@")}
    /\ result.mimeType \in {Str("image/png"), Str("image/svg+xml")}

\* The result carries a well-formed base64 image data URL.
CarriesImageDataUrl(result) ==
    /\ result.kind = "object"
    /\ result.dataUrl \in {Str(DataUrl("", "image/png", ";base64,", "QUJD")),
                            Str(DataUrl("", "image/svg+xml", ";base64,", "QUJD_-="))}

AnsweredResult == last.endpoint = "tools/call result"

\* C29: on a successful tools/call structuredContent is the executor's result
\* and content is one block: an image block for the snapshot tool when the
\* result has string data, not empty once trimmed, with a mimeType starting
\* "image/", or a well-formed base64 image data URL; otherwise, and so for
\* every image payload that is malformed, a text block holding the JSON
\* serialization of the result.
C29_ContentOfResult ==
    AnsweredResult =>
        LET result == last.req.result
            body == Get(last.resp.result)
        IN  /\ body.structuredContent = result
            /\ Len(body.content) = 1
            /\ IF last.req.name = "snapshot"
                  /\ (CarriesImageData(result) \/ CarriesImageDataUrl(result))
               THEN /\ body.content[1].type = "image"
                    /\ body.content[1].text = None
                    /\ body.content[1].data \in {"QUJD", "@@", "QUJD_-="}
               ELSE body.content[1] = TextBlock([json |-> result])

\* The snapshot tool returned a malformed data URL next to a text media type,
\* and the answer is the text block.
C29_Witness ==
    /\ AnsweredResult
    /\ last.req.name = "snapshot"
    /\ last.req.result.dataUrl = Str(DataUrl("", "image/png", ";base64,", "QU JD"))
    /\ last.req.result.mimeType = Str("text/plain")
    /\ Get(last.resp.result).content[1].type = "text"


\* What each tool does with a request before it changes anything.
CheckOf(req) ==
    CASE req.name = "new_game" -> new_game_check(req.userId, req.args)
      [] req.name = "move_piece" -> move_piece_check(req.userId, req.args)
      [] req.name = "post_chat_message" -> post_chat_message_check(req.userId, req.args)
      [] OTHER -> read_tool_check(req.name, req.userId, req.args)

AllGameToolRequests ==
    AllNewGameRequests \cup AllMoveRequests \cup AllChatRequests \cup AllReadRequests

C30_InvalidRefusedUnread ==
    Quiet =>
        \A req \in AllGameToolRequests :
            ~req.args.valid =>
                /\ IsSome(CheckOf(req).message)
                /\ CheckOf(req).touched = {}

C30_InvalidAnsweredWithError ==
    (last.endpoint = "tool" /\ ~last.req.args.valid) =>
        /\ last.resp.result = None
        /\ last.resp.code \in {-32000, -32001}
        /\ last.resp.status \in {400, 401}
        /\ last.touched = {}

C30_InvalidChangesNothing ==
    (last = NoInvocation /\ last'.endpoint = "tool" /\ ~last'.req.args.valid) =>
        UNCHANGED gameVars

\* C30: for every tool, a call whose arguments do not satisfy the tool's
\* schema is answered with a JSON-RPC error, and it reads and writes no user,
\* game, move or chat record and starts no transaction.
C30_SchemaBeforeDomain ==
    /\ [](C30_InvalidRefusedUnread /\ C30_InvalidAnsweredWithError)
    /\ [][C30_InvalidChangesNothing]_vars

\* The player to move in an ACTIVE game calls move_piece with arguments that
\* do not satisfy movePieceInput, and is answered -32000.
C30_Witness ==
    /\ last.endpoint = "tool"
    /\ last.req.name = "move_piece"
    /\ ~last.req.args.valid
    /\ last.resp.code = -32000
    /\ IsSome(FindGame(last.req.args.gameId))
    /\ MayMove(last.req.userId, last.req.args)


\* The messages the executors throw.
ExecutorMessages ==
    { "Authentication required", "ZodError", "Authenticated user not found",
      "Cannot create a game against yourself", "Game not found", "Game is not active",
      "Only game players can move pieces", "It is not your turn", "Illegal move",
      "Only game players can post chat messages", "Unique constraint failed",
      "Transaction failed due to a write conflict", "Unknown tool: nope" }

\* The JSON-RPC error for an exception with this message.
ErrorFor(message) ==
    IF message = "Authentication required"
    THEN [status |-> 401, code |-> -32001, message |-> message, result |-> None,
          wwwAuthenticate |-> TRUE]
    ELSE [status |-> 400, code |-> -32000, message |-> message, result |-> None,
          wwwAuthenticate |-> FALSE]

C31_EveryMessageVerbatim ==
    \A message \in ExecutorMessages : RespondTo(Throw(message)) = ErrorFor(message)

C31_ErrorsAreOfExecutors ==
    (last.endpoint = "tool" /\ ~IsSome(last.resp.result)) =>
        /\ last.resp.message \in ExecutorMessages
        /\ last.resp = ErrorFor(last.resp.message)

C31_RefusalAnsweredVerbatim ==
    (/\ last = NoInvocation
     /\ last'.endpoint = "tool"
     /\ tx' = tx
     /\ IsSome(CheckOf(last'.req).message)) =>
        last'.resp = ErrorFor(Get(CheckOf(last'.req).message))

\* C31: an exception of a tool executor is answered with JSON-RPC error -32000
\* (HTTP 400) whose message is the exception's message, except that the
\* message "Authentication required", and only it, is answered -32001 with
\* HTTP 401.
C31_DomainErrorsVerbatim ==
    /\ [](C31_EveryMessageVerbatim /\ C31_ErrorsAreOfExecutors)
    /\ [][C31_RefusalAnsweredVerbatim]_vars

\* A player moves out of turn and is answered -32000 "It is not your turn".
C31_Witness ==
    /\ last.endpoint = "tool"
    /\ last.req.name = "move_piece"
    /\ last.resp.code = -32000
    /\ last.resp.status = 400
    /\ last.resp.message = "It is not your turn"
    /\ Len(move) >= 1


\* The base URL a configured value stands for: its origin, https when it names
\* no scheme, and its path without trailing slashes; none for a value that is
\* unset, blank or no URL.
NormalForm(value) ==
    CASE value = Some(Configured(" ", "", "chess.example", "/", TRUE)) ->
             Some("https://chess.example")
      [] value = Some(Configured("", "HTTPS://", "chess.example", "/base//", TRUE)) ->
             Some("https://chess.example/base")
      [] value = Some(Configured("", "http://", "auth.example", "", TRUE)) ->
             Some("http://auth.example")
      [] OTHER -> None

ConfiguredBase(env) ==
    IF IsSome(NormalForm(env.MCP_PUBLIC_URL)) THEN NormalForm(env.MCP_PUBLIC_URL)
    ELSE NormalForm(env.NEXTAUTH_URL)

AnsweredDiscovery ==
    last.endpoint \in {"oauth-protected-resource", "oauth-authorization-server"}

\* The base URL the document answered was built from, and whether every URL
\* in it is built from that base.
BaseOfDocument ==
    IF last.endpoint = "oauth-protected-resource"
    THEN last.resp.authorization_servers[1] ELSE last.resp.issuer

BuiltFromBase ==
    IF last.endpoint = "oauth-protected-resource"
    THEN /\ last.resp.resource = BaseOfDocument \o "/api/mcp"
         /\ last.resp.authorization_servers = <<BaseOfDocument>>
    ELSE /\ last.resp.authorization_endpoint = BaseOfDocument \o "/oauth/authorize"
         /\ last.resp.token_endpoint = BaseOfDocument \o "/oauth/token"

\* The claim as written: without a configured URL the base is made of
\* x-forwarded-proto and x-forwarded-host when both are there, and is the
\* request's origin otherwise.
C32_ForwardedHostOrOrigin ==
    AnsweredDiscovery =>
        /\ BuiltFromBase
        /\ IsSome(ConfiguredBase(last.env)) => BaseOfDocument = Get(ConfiguredBase(last.env))
        /\ ~IsSome(ConfiguredBase(last.env)) =>
               IF Truthy(last.req.forwardedProto) /\ Truthy(last.req.forwardedHost)
               THEN BaseOfDocument =
                        Get(last.req.forwardedProto) \o "://" \o Get(last.req.forwardedHost)
               ELSE BaseOfDocument = last.req.origin

\* C32 (amended): getBaseUrl is the configured public URL in normal form,
\* MCP_PUBLIC_URL before NEXTAUTH_URL; else x-forwarded-proto with
\* x-forwarded-host or, when that header is absent, with the Host header; else
\* the origin of the request; and both discovery documents are built from it.
C32_BaseUrlPriority ==
    AnsweredDiscovery =>
        /\ BuiltFromBase
        /\ IsSome(ConfiguredBase(last.env)) => BaseOfDocument = Get(ConfiguredBase(last.env))
        /\ ~IsSome(ConfiguredBase(last.env)) =>
               LET host == IF last.req.forwardedHost = None THEN last.req.host
                           ELSE last.req.forwardedHost
               IN  IF Truthy(last.req.forwardedProto) /\ Truthy(host)
                   THEN BaseOfDocument = Get(last.req.forwardedProto) \o "://" \o Get(host)
                   ELSE BaseOfDocument = last.req.origin

\* Nothing is configured and the proxy sets x-forwarded-proto only: the base
\* is that scheme with the Host header, not the origin of the request.
C32_Witness ==
    /\ AnsweredDiscovery
    /\ ~IsSome(ConfiguredBase(last.env))
    /\ last.req.forwardedProto = Some("https")
    /\ last.req.forwardedHost = None
    /\ last.req.host = Some("localhost:3000")
    /\ BaseOfDocument = "https://localhost:3000"
    /\ BaseOfDocument # last.req.origin


\* A token request that names the n-th code while that code is unused and not
\* expired, with a client, a redirect URI or a verifier the code was not issued
\* for; and the request with the values it was issued for.
NamesFreshCode(body, n) ==
    /\ body.grantType = "authorization_code"
    /\ body.code = NewCodeValue(n)
    /\ oAuthCode[n].usedAt = None
    /\ now < oAuthCode[n].expiresAt

WrongValues(body, n) ==
    \/ body.clientId # oAuthCode[n].clientId
    \/ body.redirectUri # Some(oAuthCode[n].redirectUri)
    \/ ~verifyPkce(oAuthCode[n].codeChallenge, oAuthCode[n].codeChallengeMethod,
                   body.codeVerifier)

RightVerifiers(n) ==
    {v \in Verifiers : verifyPkce(oAuthCode[n].codeChallenge, oAuthCode[n].codeChallengeMethod, v)}

RightBodies(n) ==
    { TokenBody("authorization_code", NewCodeValue(n), oAuthCode[n].clientId,
                Some(oAuthCode[n].redirectUri), v) : v \in RightVerifiers(n) }

InvalidGrantFor(n) ==
    /\ last.endpoint = "token"
    /\ last.resp = OAuthError("invalid_grant", 400)
    /\ NamesFreshCode(last.req, n)
    /\ WrongValues(last.req, n)

\* The right request passes every check of the exchange and its conditional
\* update would find the row.
StillExchangeable(n) ==
    /\ oAuthCode[n].usedAt = None
    /\ \A body \in RightBodies(n) :
           /\ ~ExchangeThrows(FindCode(sha256(body.code)), ExchangeInput(body), now)
           /\ MarkUsed(n, now).count = 1

\* C33: an exchange refused with invalid_grant for a wrong verifier, client_id
\* or redirect_uri changes no code record, token or pending exchange: usedAt
\* of the code stays null and the request with the right values still passes.
C33_RefusedExchangeKeepsCode ==
    [][\A n \in 1..Len(oAuthCode) :
          ( /\ last = NoInvocation
            /\ last'.endpoint = "token"
            /\ last'.resp = OAuthError("invalid_grant", 400)
            /\ NamesFreshCode(last'.req, n)
            /\ WrongValues(last'.req, n) ) =>
              /\ oAuthCode' = oAuthCode
              /\ oAuthAccessToken' = oAuthAccessToken
              /\ exchange' = exchange
              /\ StillExchangeable(n)']_vars

\* The second code was refused for a wrong verifier while unused; the right
\* request for it exists and a first code has been exchanged.
C33_Witness ==
    \E n \in 1..Len(oAuthCode) :
        /\ InvalidGrantFor(n)
        /\ last.req.clientId = oAuthCode[n].clientId
        /\ last.req.redirectUri = Some(oAuthCode[n].redirectUri)
        /\ RightBodies(n) # {}
        /\ StillExchangeable(n)
        /\ Len(oAuthAccessToken) >= 1


\* Exchange p was answered server_error: its insert of the token row failed.
IssuanceFailed(p) ==
    /\ exchange[p].pc = "done"
    /\ exchange[p].resp = OAuthError("server_error", 500)

\* Every request for the n-th code that is not refused for its form or its
\* client gets invalid_grant.
RetryRefused(n) ==
    \A body \in RightBodies(n) \cup TokenBodiesFor(n) :
        TokenRejection(body) = None =>
            TokenPostAnswer(body) = Some(OAuthError("invalid_grant", 400))

C34_CodeSpentWithoutToken ==
    \A p \in Slots :
        IssuanceFailed(p) =>
            /\ IsSome(oAuthCode[exchange[p].codeId].usedAt)
            /\ \A i \in 1..Len(oAuthAccessToken) :
                   /\ oAuthAccessToken[i].codeId # exchange[p].codeId
                   /\ oAuthAccessToken[i].tokenHash # sha256(exchange[p].token)
            /\ Quiet => RetryRefused(exchange[p].codeId)

C34_FailureUndoesNothing ==
    \A p \in Slots :
        (exchange[p].pc = "create" /\ IssuanceFailed(p)') =>
            /\ oAuthCode' = oAuthCode
            /\ IsSome(oAuthCode[exchange[p].authCode.id].usedAt)
            /\ oAuthAccessToken' = oAuthAccessToken

\* C34: when the insert of the access token fails after updateMany marked the
\* code used, the failure changes no table: usedAt stays set, no token exists
\* for the code, the request is answered server_error with status 500, and
\* every later exchange of that code is answered invalid_grant.
C34_FailedInsertSpendsCode ==
    []C34_CodeSpentWithoutToken /\ [][C34_FailureUndoesNothing]_vars

\* A retry of a code whose token insert failed has been answered
\* invalid_grant, and the code was not expired at that time.
C34_Witness ==
    \E p \in Slots :
        /\ IssuanceFailed(p)
        /\ last.endpoint = "token"
        /\ last.req \in RightBodies(exchange[p].codeId)
        /\ now < oAuthCode[exchange[p].codeId].expiresAt
        /\ last.resp = OAuthError("invalid_grant", 400)
        /\ oAuthAccessToken = <<>>


\* The moves of game g in the order of their creation.
MoveList(g) == SelectSeq(move, LAMBDA m : m.gameId = g)

\* C35: in every state, with move_piece transactions on the same game
\* interleaved, the k-th stored move of a game has ply k, the first starts
\* from the position the game was created with, each next one from the
\* position the previous one left, and the game's fen is the position after
\* its last move.
C35_MovesFormOneLine ==
    \A g \in 1..Len(game) :
        LET ms == MoveList(g)
        IN  /\ \A k \in 1..Len(ms) : ms[k].ply = k
            /\ \A k \in 1..Len(ms) :
                   ms[k].fenBefore = IF k = 1 THEN StartFen ELSE ms[k - 1].fenAfter
            /\ game[g].fen = IF ms = <<>> THEN StartFen ELSE ms[Len(ms)].fenAfter

\* Two transactions read the same position of a game; one has committed its
\* move and the other was refused, and a second move was stored after that.
C35_Witness ==
    \E p, q \in 1..Len(tx) :
        /\ p # q
        /\ tx[p].kind = "move_piece" /\ tx[q].kind = "move_piece"
        /\ tx[p].gameId = tx[q].gameId
        /\ tx[p].fenBefore = tx[q].fenBefore
        /\ tx[p].pc = "done" /\ tx[q].pc = "done"
        /\ Len(MoveList(tx[p].gameId)) = 2


\* The five refusals of move_piece inside its transaction.
MoveRefusals ==
    { "Game not found", "Game is not active", "Only game players can move pieces",
      "It is not your turn", "Illegal move" }

MoveFailed(inv) ==
    /\ inv.endpoint = "tool"
    /\ inv.req.name = "move_piece"
    /\ inv.resp.result = None

\* A call of an authenticated caller with well-formed arguments that must
\* fail: the game is missing or over, the caller does not play it or is not
\* to move, or the move is illegal.
MustFail(req) ==
    /\ IsSome(req.userId)
    /\ req.args.valid
    /\ ~(MayMove(req.userId, req.args) /\ req.args.legal)

C36_FailureChangesNothing ==
    (last = NoInvocation /\ MoveFailed(last')) =>
        /\ game' = game
        /\ move' = move
        /\ chatMessage' = chatMessage
        /\ outbox' = outbox

C36_FiveRefusalsFail ==
    (last = NoInvocation /\ last'.endpoint = "tool" /\ last'.req.name = "move_piece"
        /\ tx' = tx /\ MustFail(last'.req)) =>
        /\ MoveFailed(last')
        /\ last'.resp.message \in MoveRefusals

\* C36: a move_piece call that fails (game not found, game not active, caller
\* not a player, not the caller's turn, illegal move, or any other error)
\* leaves every game row, with its fen and status, and the move list as they
\* were and publishes no event.
C36_FailedMoveChangesNothing ==
    [][C36_FailureChangesNothing /\ C36_FiveRefusalsFail]_vars

\* An illegal move is refused in a game that has a move stored and events
\* published.
C36_Witness ==
    /\ MoveFailed(last)
    /\ last.resp.message = "Illegal move"
    /\ MovesOf(last.req.args.gameId) # {}
    /\ \E i \in 1..Len(outbox) : outbox[i].kind = "move.created"


\* A finished game stays as it is: its row and its moves.
C37_FinishedStays ==
    \A g \in 1..Len(game) :
        game[g].status = "FINISHED" =>
            /\ game'[g] = game[g]
            /\ MoveList(g)' = MoveList(g)

\* The commit of a move: the game was ACTIVE, and it is FINISHED afterwards
\* exactly when chess.isGameOver() held after the move.
C37_FinishedIffGameOver ==
    (last = NoInvocation /\ MoveSucceeded(last')) =>
        LET g == last'.req.args.gameId
        IN  /\ game[g].status = "ACTIVE"
            /\ game'[g].status = IF last'.req.args.ends THEN "FINISHED" ELSE "ACTIVE"
            /\ last'.resp.result = Some(Returned("move_piece", last'.req.userId,
                                           Get(last'.resp.result).data))
            /\ Get(last'.resp.result).data.gameStatus = game'[g].status

\* Nothing but the commit of a move changes the status of a game.
C37_OnlyMovesEndGames ==
    \A g \in 1..Len(game) :
        game'[g].status # game[g].status => MoveSucceeded(last') /\ last'.req.args.gameId = g

\* C37: move_piece sets the status of a game to FINISHED exactly when its
\* move ends the game, and a FINISHED game takes no further move and never
\* becomes ACTIVE again.
C37_FinishedIsTerminal ==
    [][C37_FinishedStays /\ C37_FinishedIffGameOver /\ C37_OnlyMovesEndGames]_vars

\* A game was finished by its second move, and a transaction that read it
\* while it was ACTIVE was then refused.
C37_Witness ==
    \E g \in 1..Len(game) :
        /\ game[g].status = "FINISHED"
        /\ Len(MoveList(g)) = 2
        /\ MoveFailed(last)
        /\ last.req.args.gameId = g
        /\ last.resp.message = "Transaction failed due to a write conflict"


UserIds == {user[i].id : i \in 1..Len(user)}

\* Every game has two different users as white and black, and its creator is
\* one of them.
C38_TwoDistinctPlayers ==
    \A g \in 1..Len(game) :
        /\ game[g].whiteId # game[g].blackId
        /\ {game[g].whiteId, game[g].blackId} \subseteq UserIds
        /\ game[g].createdById \in {game[g].whiteId, game[g].blackId}

NewGameAnswered(inv) == inv.endpoint = "tool" /\ inv.req.name = "new_game"

\* The game a successful new_game adds has the caller on the side of playAs
\* and the user with the opponent's address on the other.
C38_CreatorOnChosenSide ==
    (last = NoInvocation /\ NewGameAnswered(last') /\ IsSome(last'.resp.result)) =>
        LET row == game'[Len(game')]
            me == Get(last'.req.userId)
        IN  /\ Len(game') = Len(game) + 1
            /\ row.createdById = me
            /\ IF last'.req.args.playAs = "white" THEN row.whiteId = me ELSE row.blackId = me
            /\ \E i \in 1..Len(user') :
                   /\ user'[i].email = Some(LowerEmail(last'.req.args.opponentEmail))
                   /\ user'[i].id = IF last'.req.args.playAs = "white" THEN row.blackId
                                     ELSE row.whiteId

\* The opponent's address is the caller's own, whatever the case of either.
OwnAddress(req) ==
    /\ IsSome(req.userId)
    /\ req.args.valid
    /\ \E i \in 1..Len(user) :
           /\ user[i].id = Get(req.userId)
           /\ IsSome(user[i].email)
           /\ LowerEmail(Get(user[i].email)) = LowerEmail(req.args.opponentEmail)

C38_SelfGameRejected ==
    (last = NoInvocation /\ NewGameAnswered(last') /\ OwnAddress(last'.req)) =>
        /\ last'.resp = ErrorFor("Cannot create a game against yourself")
        /\ game' = game
        /\ user' = user
        /\ outbox' = outbox

C38_OwnAddressRefused ==
    Quiet =>
        \A req \in AllNewGameRequests :
            OwnAddress(req) =>
                new_game_check(req.userId, req.args).message =
                    Some("Cannot create a game against yourself")

\* C38: every game created by new_game has two distinct users as white and
\* black, one of them its creator, who is on the side chosen by playAs; a
\* new_game whose opponentEmail is the creator's own address in any case is
\* rejected and creates neither a game nor a user.
C38_NewGameHasTwoPlayers ==
    /\ [](C38_TwoDistinctPlayers /\ C38_OwnAddressRefused)
    /\ [][C38_CreatorOnChosenSide /\ C38_SelfGameRejected]_vars

\* The creator of a game in which they play black asks for a game against
\* their own address written in capitals, and is refused.
C38_Witness ==
    /\ NewGameAnswered(last)
    /\ last.req.args.opponentEmail = "A@X"
    /\ last.resp.message = "Cannot create a game against yourself"
    /\ \E g \in 1..Len(game) :
           /\ game[g].createdById = Get(last.req.userId)
           /\ game[g].blackId = Get(last.req.userId)
           /\ game[g].whiteId # Get(last.req.userId)


\* The tools that write, and every call of them without a user.
WritingTools == {"new_game", "move_piece", "post_chat_message"}

AnonymousWrites ==
    {req \in AllNewGameRequests \cup AllMoveRequests \cup AllChatRequests : req.userId = None}

C39_AnonymousRefusedUnparsed ==
    Quiet =>
        \A req \in AnonymousWrites :
            /\ CheckOf(req).message = Some("Authentication required")
            /\ CheckOf(req).touched = {}

C39_AnonymousAnswered401 ==
    (last.endpoint = "tool" /\ last.req.name \in WritingTools /\ last.req.userId = None) =>
        /\ last.resp.code = -32001
        /\ last.resp.status = 401
        /\ last.resp.message = "Authentication required"
        /\ last.resp.result = None
        /\ last.touched = {}

C39_AnonymousChangesNothing ==
    (last = NoInvocation /\ last'.endpoint = "tool" /\ last'.req.name \in WritingTools
        /\ last'.req.userId = None) =>
        /\ UNCHANGED <<user, game, move, chatMessage, outbox, tx>>

\* C39: new_game, move_piece and post_chat_message check the caller before
\* the arguments: without a user the call is answered 'Authentication
\* required' with code -32001 and status 401 whatever the arguments are,
\* well-formed or not, and nothing is read or written.
C39_AuthBeforeValidation ==
    /\ [](C39_AnonymousRefusedUnparsed /\ C39_AnonymousAnswered401)
    /\ [][C39_AnonymousChangesNothing]_vars

\* An anonymous post_chat_message with malformed arguments is answered 401
\* in a state with a game.
C39_Witness ==
    /\ last.endpoint = "tool"
    /\ last.req.name = "post_chat_message"
    /\ last.req.userId = None
    /\ ~last.req.args.valid
    /\ last.resp.status = 401
    /\ last.resp.code = -32001
    /\ game # <<>>


\* The token table after the row of the unexpired token that authorization
\* presents, if there is one, got lastUsedAt = t.
StampedAt(authorization, t) ==
    [ i \in 1..Len(oAuthAccessToken) |->
        IF /\ CarriesBearer(authorization)
           /\ oAuthAccessToken[i].tokenHash = sha256(Get(authorization).rest)
           /\ t < oAuthAccessToken[i].expiresAt
        THEN [oAuthAccessToken[i] EXCEPT !.lastUsedAt = Some(t)]
        ELSE oAuthAccessToken[i] ]

\* tools/call with every session, every header, and a tool name that is
\* missing, no string, empty, unknown or a tool's.
SessionAndNameRequests ==
    { McpRequest(session, authorization, TRUE, ObjectBody(Some(7), Some("tools/call"), params)) :
        session \in {None} \cup { Some(u) : u \in Users },
        authorization \in {None}
            \cup { Some(Header("Bearer", t)) : t \in IssuedTokens }
            \cup { Some(Header("Bearer", Truncate(t, t.len - 1))) : t \in IssuedTokens },
        params \in {None} \cup
            { Some(Params(name, Some([valid |-> TRUE, scope |-> "my"]))) :
                name \in { MissingName, NumberName, StringName(""), StringName("castle"),
                           StringName("new_game") } } }

C40_EveryCallStamps ==
    Quiet =>
        \A req \in SessionAndNameRequests :
            McpPostOutcome(req, now).tokens = StampedAt(req.authorization, now)

C40_CallStamped ==
    (last = NoInvocation /\ last'.endpoint = "mcp" /\ IsToolsCall(last'.req)
        /\ ~last'.req.updateFails) =>
        oAuthAccessToken' = StampedAt(last'.req.authorization, now)

\* C40: every tools/call that carries a bearer token looks the token up and,
\* when it is an unexpired issued token, writes its lastUsedAt: also when a
\* session is present and decides the identity, and also when the call is
\* then answered -32602 for a missing tool name.
C40_BearerStampedOnEveryCall ==
    []C40_EveryCallStamps /\ [][C40_CallStamped]_vars

\* A call with the session of one user and the token of another, and without
\* a tool name, was answered -32602 and the token is stamped.
C40_Witness ==
    /\ AnsweredMcp
    /\ IsToolsCall(last.req)
    /\ IsSome(last.req.session)
    /\ ~Truthy(CalledName(last.req))
    /\ last.resp.response.code = -32602
    /\ \E i \in 1..Len(oAuthAccessToken) :
          /\ CarriesBearer(last.req.authorization)
          /\ oAuthAccessToken[i].tokenHash = sha256(Get(last.req.authorization).rest)
          /\ oAuthAccessToken[i].userId # Get(last.req.session)
          /\ oAuthAccessToken[i].lastUsedAt = Some(last.at)

====
